---------------------------- MODULE Spec2Model ----------------------------
(***************************************************************************)
(* A model of the engineering core of the IES4 military database analysis  *)
(* suite: GraphBuilder (src/src/graph_builder.py), FilterSystem            *)
(* (src/src/filter_system.py), the reports of StatisticsGenerator          *)
(* (src/src/statistics_generator.py), the change detection of              *)
(* DatabaseLoader (src/src/database_loader.py) and the graph that          *)
(* MilitaryDatabaseAnalyzer (src/military_database_analyzer_v3.py) holds.  *)
(*                                                                         *)
(* Python values are tagged records [k |-> kind, v |-> payload]; a Python  *)
(* string is a tuple of one-character strings, so that lower(), substring  *)
(* tests, endswith() and int() are computed and not assumed.  An entity    *)
(* record (a Python dict) is a function from its keys to values, a graph   *)
(* is a record of its identity, its node table and its edge table.         *)
(***************************************************************************)
EXTENDS Integers, Sequences, FiniteSets, TLC

VARIABLES
    sources,     \* the caller's databases, in caller order: <<[name, db]>>
    sources0,    \* the caller's databases as they were handed over (history)
    combined,    \* the last result of combine_databases
    graph,       \* the graph under analysis (the last build_graph result)
    base,        \* graph as build_graph returned it (history)
    built,       \* build key -> the first graph built from that database (history)
    lastKey,     \* the database the last build_graph call was given
    result,      \* the last call: its arguments and what it returned
    disk,        \* the data directory: file name -> the file
    loader,      \* the DatabaseLoader: file_checksums and file_mod_times
    checked,     \* file name -> what the file held at its latest change check (history)
    analyzer     \* the MilitaryDatabaseAnalyzer: databases and combined_graph

vars == <<sources, sources0, combined, graph, base, built, lastKey, result,
          disk, loader, checked, analyzer>>

----------------------------------------------------------------------------
(* Python values *)

PyStr(s) == [k |-> "str", v |-> s]
PyInt(n) == [k |-> "int", v |-> n]
PyNone == [k |-> "none", v |-> 0]
PyList(l) == [k |-> "list", v |-> l]
PyDict(d) == [k |-> "dict", v |-> d]
PyFloat1 == [k |-> "float", v |-> 1]

IsStr(x) == x.k = "str"
IsInt(x) == x.k = "int"
IsList(x) == x.k = "list"
IsDict(x) == x.k = "dict"

\* bool(x)
Truthy(x) ==
    CASE x.k = "str" -> x.v # <<>>
      [] x.k = "int" -> x.v # 0
      [] x.k = "none" -> FALSE
      [] x.k = "list" -> x.v # <<>>
      [] x.k = "dict" -> DOMAIN x.v # {}
      [] x.k = "float" -> x.v # 0

\* The characters of the string literals of the source.
Chars(s) ==
    CASE s = "" -> <<>>
      [] s = "c1" -> <<"c", "1">>
      [] s = "c2" -> <<"c", "2">>
      [] s = "v1" -> <<"v", "1">>
      [] s = "v2" -> <<"v", "2">>
      [] s = "vt1" -> <<"v", "t", "1">>
      [] s = "x9" -> <<"x", "9">>
      [] s = "A" -> <<"A">>
      [] s = "B" -> <<"B">>
      [] s = "C" -> <<"C">>
      [] s = "UK" -> <<"U", "K">>
      [] s = "uk" -> <<"u", "k">>
      [] s = "UK Army" -> <<"U", "K", " ", "A", "r", "m", "y">>
      [] s = "BAE" -> <<"B", "A", "E">>
      [] s = "ae" -> <<"a", "e">>
      [] s = "Tank" -> <<"T", "a", "n", "k">>
      [] s = "tank" -> <<"t", "a", "n", "k">>
      [] s = "1990" -> <<"1", "9", "9", "0">>
      [] s = "1985-1995" -> <<"1", "9", "8", "5", "-", "1", "9", "9", "5">>
      [] s = "199x" -> <<"1", "9", "9", "x">>
      [] s = "official" -> <<"o", "f", "f", "i", "c", "i", "a", "l">>
      [] s = "common" -> <<"c", "o", "m", "m", "o", "n">>
      [] s = "owner" -> <<"o", "w", "n", "e", "r">>
      [] s = "country" -> <<"c", "o", "u", "n", "t", "r", "y">>
      [] s = "vehicleType" -> <<"v", "e", "h", "i", "c", "l", "e", "T", "y", "p", "e">>
      [] s = "parentArea" -> <<"p", "a", "r", "e", "n", "t", "A", "r", "e", "a">>
      [] s = "headquarters" -> <<"h", "e", "a", "d", "q", "u", "a", "r", "t", "e", "r", "s">>
      [] s = "nationality" -> <<"n", "a", "t", "i", "o", "n", "a", "l", "i", "t", "y">>
      [] s = "personTypes" -> <<"p", "e", "r", "s", "o", "n", "T", "y", "p", "e", "s">>
      [] s = "childAreas" -> <<"c", "h", "i", "l", "d", "A", "r", "e", "a", "s">>
      [] s = "temporal_location" ->
            <<"t", "e", "m", "p", "o", "r", "a", "l",
              "_", "l", "o", "c", "a", "t", "i", "o", "n">>
      [] s = "state_location" -> <<"s", "t", "a", "t", "e", "_", "l", "o", "c", "a", "t", "i", "o", "n">>
      [] s = "state_organization" ->
            <<"s", "t", "a", "t", "e", "_", "o", "r", "g",
              "a", "n", "i", "z", "a", "t", "i", "o", "n">>
      [] s = "countries" -> <<"c", "o", "u", "n", "t", "r", "i", "e", "s">>
      [] s = "vehicles" -> <<"v", "e", "h", "i", "c", "l", "e", "s">>
      [] s = "vehicleTypes" -> <<"v", "e", "h", "i", "c", "l", "e", "T", "y", "p", "e", "s">>
      [] s = "people" -> <<"p", "e", "o", "p", "l", "e">>
      [] s = "peopleTypes" -> <<"p", "e", "o", "p", "l", "e", "T", "y", "p", "e", "s">>
      [] s = "areas" -> <<"a", "r", "e", "a", "s">>
      [] s = "militaryOrganizations" ->
            <<"m", "i", "l", "i", "t", "a", "r", "y", "O", "r",
              "g", "a", "n", "i", "z", "a", "t", "i", "o", "n", "s">>
      [] s = "representations" -> <<"r", "e", "p", "r", "e", "s", "e", "n", "t", "a", "t", "i", "o", "n", "s">>
      [] s = "vehicle" -> <<"v", "e", "h", "i", "c", "l", "e">>
      [] s = "person" -> <<"p", "e", "r", "s", "o", "n">>
      [] s = "area" -> <<"a", "r", "e", "a">>
      [] s = "militaryOrganization" ->
            <<"m", "i", "l", "i", "t", "a", "r", "y", "O", "r",
              "g", "a", "n", "i", "z", "a", "t", "i", "o", "n">>
      [] s = "peopleType" -> <<"p", "e", "o", "p", "l", "e", "T", "y", "p", "e">>
      [] s = "representation" -> <<"r", "e", "p", "r", "e", "s", "e", "n", "t", "a", "t", "i", "o", "n">>
      [] s = "unknown" -> <<"u", "n", "k", "n", "o", "w", "n">>
      [] s = "Unknown" -> <<"U", "n", "k", "n", "o", "w", "n">>
      [] s = "None" -> <<"N", "o", "n", "e">>
      [] s = "#FF6B6B" -> <<"#", "F", "F", "6", "B", "6", "B">>
      [] s = "#4ECDC4" -> <<"#", "4", "E", "C", "D", "C", "4">>
      [] s = "#45B7D1" -> <<"#", "4", "5", "B", "7", "D", "1">>
      [] s = "#96CEB4" -> <<"#", "9", "6", "C", "E", "B", "4">>
      [] s = "#FECA57" -> <<"#", "F", "E", "C", "A", "5", "7">>
      [] s = "#A8E6CF" -> <<"#", "A", "8", "E", "6", "C", "F">>
      [] s = "#DDA0DD" -> <<"#", "D", "D", "A", "0", "D", "D">>
      [] s = "#F8B500" -> <<"#", "F", "8", "B", "5", "0", "0">>
      [] s = "#808080" -> <<"#", "8", "0", "8", "0", "8", "0">>
      [] s = "p1" -> <<"p", "1">>
      [] s = "pt1" -> <<"p", "t", "1">>
      [] s = "a1" -> <<"a", "1">>
      [] s = "a2" -> <<"a", "2">>
      [] s = "o1" -> <<"o", "1">>
      [] s = "bogus" -> <<"b", "o", "g", "u", "s">>
      [] s = "1" -> <<"1">>
      [] s = "2" -> <<"2">>
      [] s = "abc" -> <<"a", "b", "c">>
      [] s = "AND" -> <<"A", "N", "D">>
      [] s = "OR" -> <<"O", "R">>
      [] s = "XOR" -> <<"X", "O", "R">>
      [] s = "a" -> <<"a">>
      [] s = "aircraft_unmanned" ->
            <<"a", "i", "r", "c", "r", "a", "f", "t",
              "_", "u", "n", "m", "a", "n", "n", "e", "d">>
      [] s = "unmanned aircraft" ->
            <<"u", "n", "m", "a", "n", "n", "e", "d",
              " ", "a", "i", "r", "c", "r", "a", "f", "t">>
      [] s = "aircraft" -> <<"a", "i", "r", "c", "r", "a", "f", "t">>
      [] s = "drone" -> <<"d", "r", "o", "n", "e">>
      [] s = "uav" -> <<"u", "a", "v">>
      [] s = "unmanned aerial vehicle" ->
            <<"u", "n", "m", "a", "n", "n", "e", "d", " ", "a", "e",
              "r", "i", "a", "l", " ", "v", "e", "h", "i", "c", "l", "e">>
      [] s = "communication_electronics" ->
            <<"c", "o", "m", "m", "u", "n", "i", "c", "a", "t", "i", "o",
              "n", "_", "e", "l", "e", "c", "t", "r", "o", "n", "i", "c", "s">>
      [] s = "communication equipment" ->
            <<"c", "o", "m", "m", "u", "n", "i", "c", "a", "t", "i",
              "o", "n", " ", "e", "q", "u", "i", "p", "m", "e", "n", "t">>
      [] s = "electronic system" ->
            <<"e", "l", "e", "c", "t", "r", "o", "n",
              "i", "c", " ", "s", "y", "s", "t", "e", "m">>
      [] s = "computer system" ->
            <<"c", "o", "m", "p", "u", "t", "e",
              "r", " ", "s", "y", "s", "t", "e", "m">>
      [] s = "sensor" -> <<"s", "e", "n", "s", "o", "r">>
      [] s = "sensor system" -> <<"s", "e", "n", "s", "o", "r", " ", "s", "y", "s", "t", "e", "m">>
      [] s = "equipment" -> <<"e", "q", "u", "i", "p", "m", "e", "n", "t">>
      [] s = "electronic_system" ->
            <<"e", "l", "e", "c", "t", "r", "o", "n",
              "i", "c", "_", "s", "y", "s", "t", "e", "m">>
      [] s = "radar" -> <<"r", "a", "d", "a", "r">>
      [] s = "radio" -> <<"r", "a", "d", "i", "o">>
      [] s = "electronics" -> <<"e", "l", "e", "c", "t", "r", "o", "n", "i", "c", "s">>
      [] s = "weapons_defense" ->
            <<"w", "e", "a", "p", "o", "n", "s",
              "_", "d", "e", "f", "e", "n", "s", "e">>
      [] s = "artillery" -> <<"a", "r", "t", "i", "l", "l", "e", "r", "y">>
      [] s = "missile" -> <<"m", "i", "s", "s", "i", "l", "e">>
      [] s = "defense system" ->
            <<"d", "e", "f", "e", "n", "s", "e",
              " ", "s", "y", "s", "t", "e", "m">>
      [] s = "weapon" -> <<"w", "e", "a", "p", "o", "n">>
      [] s = "ammunition" -> <<"a", "m", "m", "u", "n", "i", "t", "i", "o", "n">>
      [] s = "gun" -> <<"g", "u", "n">>
      [] s = "cannon" -> <<"c", "a", "n", "n", "o", "n">>
      [] s = "launcher" -> <<"l", "a", "u", "n", "c", "h", "e", "r">>
      [] s = "rocket" -> <<"r", "o", "c", "k", "e", "t">>
      [] s = "bomb" -> <<"b", "o", "m", "b">>
      [] s = "armored vehicle" ->
            <<"a", "r", "m", "o", "r", "e", "d",
              " ", "v", "e", "h", "i", "c", "l", "e">>
      [] s = "car" -> <<"c", "a", "r">>
      [] s = "motorcycle" -> <<"m", "o", "t", "o", "r", "c", "y", "c", "l", "e">>
      [] s = "truck" -> <<"t", "r", "u", "c", "k">>
      [] s = "bus" -> <<"b", "u", "s">>
      [] s = "van" -> <<"v", "a", "n">>
      [] s = "bicycle" -> <<"b", "i", "c", "y", "c", "l", "e">>
      [] s = "apc" -> <<"a", "p", "c">>
      [] s = "armored" -> <<"a", "r", "m", "o", "r", "e", "d">>
      [] s = "naval_assets" -> <<"n", "a", "v", "a", "l", "_", "a", "s", "s", "e", "t", "s">>
      [] s = "naval vessel" -> <<"n", "a", "v", "a", "l", " ", "v", "e", "s", "s", "e", "l">>
      [] s = "vessel" -> <<"v", "e", "s", "s", "e", "l">>
      [] s = "boat" -> <<"b", "o", "a", "t">>
      [] s = "watercraft" -> <<"w", "a", "t", "e", "r", "c", "r", "a", "f", "t">>
      [] s = "ship" -> <<"s", "h", "i", "p">>
      [] s = "submarine" -> <<"s", "u", "b", "m", "a", "r", "i", "n", "e">>
      [] s = "destroyer" -> <<"d", "e", "s", "t", "r", "o", "y", "e", "r">>
      [] s = "frigate" -> <<"f", "r", "i", "g", "a", "t", "e">>
      [] s = "carrier" -> <<"c", "a", "r", "r", "i", "e", "r">>
      [] s = "transportation" ->
            <<"t", "r", "a", "n", "s", "p", "o",
              "r", "t", "a", "t", "i", "o", "n">>
      [] s = "train" -> <<"t", "r", "a", "i", "n">>
      [] s = "railway" -> <<"r", "a", "i", "l", "w", "a", "y">>
      [] s = "locomotive" -> <<"l", "o", "c", "o", "m", "o", "t", "i", "v", "e">>
      [] s = "transport" -> <<"t", "r", "a", "n", "s", "p", "o", "r", "t">>
      [] s = "administrative" ->
            <<"a", "d", "m", "i", "n", "i", "s",
              "t", "r", "a", "t", "i", "v", "e">>
      [] s = "organization" -> <<"o", "r", "g", "a", "n", "i", "z", "a", "t", "i", "o", "n">>
      [] s = "other" -> <<"o", "t", "h", "e", "r">>
      [] s = "command" -> <<"c", "o", "m", "m", "a", "n", "d">>
      [] s = "base" -> <<"b", "a", "s", "e">>
      [] s = "geographic" -> <<"g", "e", "o", "g", "r", "a", "p", "h", "i", "c">>
      [] s = "coordinates" -> <<"c", "o", "o", "r", "d", "i", "n", "a", "t", "e", "s">>
      [] s = "location" -> <<"l", "o", "c", "a", "t", "i", "o", "n">>
      [] s = "region" -> <<"r", "e", "g", "i", "o", "n">>
      [] s = "territory" -> <<"t", "e", "r", "r", "i", "t", "o", "r", "y">>
      [] s = "T-72 tank" -> <<"T", "-", "7", "2", " ", "t", "a", "n", "k">>
      [] s = "Lithuania" -> <<"L", "i", "t", "h", "u", "a", "n", "i", "a">>
      [] s = "D" -> <<"D">>
      [] s = "1985" -> <<"1", "9", "8", "5">>
      [] s = "a-b" -> <<"a", "-", "b">>
      [] s = "1985-1995-2000" -> <<"1", "9", "8", "5", "-", "1", "9", "9", "5", "-", "2", "0", "0", "0">>
      [] s = "x" -> <<"x">>
      [] s = "Tractor" -> <<"T", "r", "a", "c", "t", "o", "r">>
      [] s = "u1" -> <<"u", "1">>
      [] s = "u2" -> <<"u", "2">>
      [] s = "unit" -> <<"u", "n", "i", "t">>
      [] s = "Naval base" -> <<"N", "a", "v", "a", "l", " ", "b", "a", "s", "e">>
      [] s = "Command" -> <<"C", "o", "m", "m", "a", "n", "d">>
      [] s = "Vehicles" -> <<"V", "e", "h", "i", "c", "l", "e", "s">>
      [] s = "military" -> <<"m", "i", "l", "i", "t", "a", "r", "y">>
      [] s = "usa" -> <<"u", "s", "a">>
      [] s = "USA" -> <<"U", "S", "A">>
      [] s = "Russia" -> <<"R", "u", "s", "s", "i", "a">>
      [] s = "China" -> <<"C", "h", "i", "n", "a">>
      [] s = "Iran" -> <<"I", "r", "a", "n">>
      [] s = "Poland" -> <<"P", "o", "l", "a", "n", "d">>
      [] s = "Sweden" -> <<"S", "w", "e", "d", "e", "n">>
      [] s = "Finland" -> <<"F", "i", "n", "l", "a", "n", "d">>

\* A string literal as a Python value.
Lit(s) == PyStr(Chars(s))

\* ''
EmptyStr == PyStr(<<>>)

\* str.lower(), character by character.
LowerChar(c) ==
    CASE c = "A" -> "a" [] c = "B" -> "b" [] c = "C" -> "c" [] c = "D" -> "d"
      [] c = "E" -> "e" [] c = "F" -> "f" [] c = "G" -> "g" [] c = "H" -> "h"
      [] c = "I" -> "i" [] c = "J" -> "j" [] c = "K" -> "k" [] c = "L" -> "l"
      [] c = "M" -> "m" [] c = "N" -> "n" [] c = "O" -> "o" [] c = "P" -> "p"
      [] c = "Q" -> "q" [] c = "R" -> "r" [] c = "S" -> "s" [] c = "T" -> "t"
      [] c = "U" -> "u" [] c = "V" -> "v" [] c = "W" -> "w" [] c = "X" -> "x"
      [] c = "Y" -> "y" [] c = "Z" -> "z"
      [] OTHER -> c

Lower(s) == [i \in 1..Len(s) |-> LowerChar(s[i])]

\* a in b, for strings
IsSubstr(a, b) ==
    \E i \in 0..(Len(b) - Len(a)) : SubSeq(b, i + 1, i + Len(a)) = a

\* b.endswith(a)
EndsWith(b, a) ==
    /\ Len(a) <= Len(b)
    /\ SubSeq(b, Len(b) - Len(a) + 1, Len(b)) = a

DigitChar(d) ==
    CASE d = 0 -> "0" [] d = 1 -> "1" [] d = 2 -> "2" [] d = 3 -> "3"
      [] d = 4 -> "4" [] d = 5 -> "5" [] d = 6 -> "6" [] d = 7 -> "7"
      [] d = 8 -> "8" [] d = 9 -> "9"

Digits == {"0", "1", "2", "3", "4", "5", "6", "7", "8", "9"}

DigitVal(c) == CHOOSE d \in 0..9 : DigitChar(d) = c

RECURSIVE NatChars(_)
NatChars(n) == IF n < 10 THEN <<DigitChar(n)>> ELSE NatChars(n \div 10) \o <<DigitChar(n % 10)>>

\* str(x), for the kinds of value a reference field or a name holds
ToStr(x) ==
    CASE x.k = "str" -> x.v
      [] x.k = "int" -> IF x.v < 0 THEN <<"-">> \o NatChars(-x.v) ELSE NatChars(x.v)
      [] x.k = "none" -> Chars("None")

\* dict.get(key, default)
Get(d, key, default) == IF key \in DOMAIN d THEN d[key] ELSE default

NoDict == [x \in {} |-> x]

----------------------------------------------------------------------------
(* GraphBuilder *)

\* self.entity_types
EntityTypes ==
    <<"countries", "vehicles", "vehicleTypes", "people", "peopleTypes",
      "areas", "militaryOrganizations", "representations">>

\* self.node_colors.get(entity_type, '#808080')
NodeColor(entity_type) ==
    CASE entity_type = "country" -> Lit("#FF6B6B")
      [] entity_type = "vehicle" -> Lit("#4ECDC4")
      [] entity_type = "person" -> Lit("#45B7D1")
      [] entity_type = "area" -> Lit("#96CEB4")
      [] entity_type = "militaryOrganization" -> Lit("#FECA57")
      [] entity_type = "vehicleType" -> Lit("#A8E6CF")
      [] entity_type = "peopleType" -> Lit("#DDA0DD")
      [] entity_type = "representation" -> Lit("#F8B500")
      [] OTHER -> Lit("#808080")

\* Concatenation of a sequence of sequences.
RECURSIVE Flatten(_)
Flatten(ss) == IF ss = <<>> THEN <<>> ELSE Head(ss) \o Flatten(Tail(ss))

\* The least element of a non-empty set of integers.
Least(S) == CHOOSE i \in S : \A j \in S : i <= j

\* A dict with the one key when the condition holds, else the empty dict.
Opt(cond, key, val) == IF cond THEN key :> val ELSE NoDict

\* nx.Graph(): a new graph object with the given identity.
NewGraph(oid) == [oid |-> oid, nodes |-> NoDict, edges |-> NoDict, info |-> NoDict]

ExtractPrimaryName(entity) ==
    IF "_primary_name" \in DOMAIN entity THEN entity["_primary_name"]
    ELSE IF "names" \in DOMAIN entity /\ Truthy(entity["names"]) THEN
        LET ns == entity["names"].v
            official == {i \in 1..Len(ns) :
                            /\ IsDict(ns[i])
                            /\ Get(ns[i].v, "nameType", PyNone) = Lit("official")}
        IN  IF official # {} THEN Get(ns[Least(official)].v, "value", Lit(""))
            ELSE IF IsDict(ns[1]) THEN Get(ns[1].v, "value", Lit(""))
            ELSE PyStr(ToStr(ns[1]))
    ELSE IF "name" \in DOMAIN entity THEN PyStr(ToStr(entity["name"]))
    ELSE IF "title" \in DOMAIN entity THEN PyStr(ToStr(entity["title"]))
    ELSE IF "value" \in DOMAIN entity THEN PyStr(ToStr(entity["value"]))
    ELSE Get(entity, "id", Lit("Unknown"))

\* One searchable attribute copied from an entity field when the field is present.
Attr(entity, field, attribute) ==
    Opt(field \in DOMAIN entity, attribute, Get(entity, field, PyNone))

ExtractSearchableAttributes(entity, entity_type) ==
    Attr(entity, "year", "year") @@ Attr(entity, "make", "manufacturer")
    @@ Attr(entity, "model", "model") @@ Attr(entity, "owner", "owner")
    @@ Attr(entity, "country", "country") @@ Attr(entity, "nationality", "nationality")
    @@ (CASE entity_type = "vehicle" ->
                Attr(entity, "vehicleType", "vehicle_type")
                @@ Attr(entity, "fuelType", "fuel_type")
          [] entity_type = "person" ->
                Attr(entity, "personTypes", "person_types")
                @@ Attr(entity, "birthDate", "birth_date")
          [] entity_type = "militaryOrganization" ->
                Attr(entity, "organizationType", "organization_type")
                @@ Attr(entity, "personnelStrength", "personnel_strength")
          [] entity_type = "area" ->
                Attr(entity, "areaType", "area_type")
                @@ Attr(entity, "administrativeLevel", "admin_level")
          [] OTHER -> NoDict)

\* graph.add_node(node_id, **attributes): a node already present keeps the
\* attributes the call does not name.
NxAddNode(g, node_id, attributes) ==
    [g EXCEPT !.nodes = (node_id :> (attributes @@ Get(g.nodes, node_id, NoDict))) @@ @]

AddNode(g, node_id, entity, entity_type, include_metadata) ==
    LET attributes ==
            [type |-> Lit(entity_type),
             label |-> ExtractPrimaryName(entity),
             color |-> NodeColor(entity_type)]
            @@ Opt(include_metadata, "data", PyDict(entity))
        searchable == ExtractSearchableAttributes(entity, entity_type)
    IN  NxAddNode(g, node_id, searchable @@ attributes)

\* graph.add_edge(u, v, **attributes) on a simple undirected graph: missing
\* endpoints become nodes, an edge already present has its attributes updated.
NxAddEdge(g, u, v, attributes) ==
    [g EXCEPT !.nodes = @ @@ (u :> NoDict) @@ (v :> NoDict),
              !.edges = ({u, v} :> (attributes @@ Get(g.edges, {u, v}, NoDict))) @@ @]

\* _add_edge called with the field and the target exchanged.
AddEdgeSwapped(g, source, target, relationship_type) ==
    IF source # Lit(relationship_type)
    THEN NxAddEdge(g, source, Lit(relationship_type),
                   [relationship |-> target, weight |-> PyFloat1])
    ELSE g

\* _add_edge without its test of the two ends.
AddEdgeAlways(g, source, target, relationship_type) ==
    NxAddEdge(g, source, target,
              [relationship |-> Lit(relationship_type), weight |-> PyFloat1])

\* _add_edge leaving an edge already present as it is.
AddEdgeKeepFirst(g, source, target, relationship_type) ==
    IF source # target /\ {source, target} \notin DOMAIN g.edges
    THEN NxAddEdge(g, source, target,
                   [relationship |-> Lit(relationship_type), weight |-> PyFloat1])
    ELSE g

AddEdge(g, source, target, relationship_type) ==
    IF source # target
    THEN NxAddEdge(g, source, target,
                   [relationship |-> Lit(relationship_type), weight |-> PyFloat1])
    ELSE g

\* The direct reference fields, in the order the code scans them.
RefFields == <<"owner", "country", "vehicleType", "parentArea", "headquarters", "nationality">>

ListFields == <<"personTypes", "childAreas">>

ExtractDirectReferences(entity) ==
    Flatten([i \in 1..Len(RefFields) |->
        IF RefFields[i] \in DOMAIN entity /\ Truthy(entity[RefFields[i]])
        THEN <<[field |-> RefFields[i], targets |-> <<PyStr(ToStr(entity[RefFields[i]]))>>]>>
        ELSE <<>>])

\* [str(item) for item in items if item]
RECURSIVE TruthyStrs(_)
TruthyStrs(items) ==
    IF items = <<>> THEN <<>>
    ELSE (IF Truthy(Head(items)) THEN <<PyStr(ToStr(Head(items)))>> ELSE <<>>)
         \o TruthyStrs(Tail(items))

ExtractListReferences(entity) ==
    Flatten([i \in 1..Len(ListFields) |->
        IF /\ ListFields[i] \in DOMAIN entity
           /\ IsList(entity[ListFields[i]])
           /\ TruthyStrs(entity[ListFields[i]].v) # <<>>
        THEN <<[field |-> ListFields[i], targets |-> TruthyStrs(entity[ListFields[i]].v)]>>
        ELSE <<>>])

ExtractHierarchicalReferences(entity) ==
    LET parts == IF "temporalParts" \in DOMAIN entity THEN entity["temporalParts"].v ELSE <<>>
        states == IF "states" \in DOMAIN entity THEN entity["states"].v ELSE <<>>
    IN  Flatten([i \in 1..Len(parts) |->
            IF "location" \in DOMAIN parts[i].v
            THEN <<[field |-> "temporal_location",
                    targets |-> <<PyStr(ToStr(parts[i].v["location"]))>>]>>
            ELSE <<>>])
        \o
        Flatten([i \in 1..Len(states) |->
            (IF "location" \in DOMAIN states[i].v
             THEN <<[field |-> "state_location",
                     targets |-> <<PyStr(ToStr(states[i].v["location"]))>>]>>
             ELSE <<>>)
            \o
            (IF "organisation" \in DOMAIN states[i].v
             THEN <<[field |-> "state_organization",
                     targets |-> <<PyStr(ToStr(states[i].v["organisation"]))>>]>>
             ELSE <<>>)])

\* The references of one entity as <<field, target>> pairs, in the order
\* _add_relationships visits them: direct, then list, then hierarchical.
EntityReferences(entity) ==
    LET refs == ExtractDirectReferences(entity) \o ExtractListReferences(entity)
                \o ExtractHierarchicalReferences(entity)
    IN  Flatten([i \in 1..Len(refs) |->
            [j \in 1..Len(refs[i].targets) |-> <<refs[i].field, refs[i].targets[j]>>]])

\* _add_relationships adding an edge for every reference, resolved or not.
RECURSIVE AddEntityEdgesUnchecked(_, _, _, _)
AddEntityEdgesUnchecked(g, entity_map, entity_id, pairs) ==
    IF pairs = <<>> THEN g
    ELSE AddEntityEdgesUnchecked(AddEdge(g, entity_id, Head(pairs)[2], Head(pairs)[1]),
                                 entity_map, entity_id, Tail(pairs))

\* The loop body of _add_relationships for one entity's references.
RECURSIVE AddEntityEdges(_, _, _, _)
AddEntityEdges(g, entity_map, entity_id, pairs) ==
    IF pairs = <<>> THEN g
    ELSE LET field == Head(pairs)[1]
             target_id == Head(pairs)[2]
             g1 == IF target_id \in DOMAIN entity_map.info
                   THEN AddEdge(g, entity_id, target_id, field)
                   ELSE g
         IN  AddEntityEdges(g1, entity_map, entity_id, Tail(pairs))

\* for entity_id, entity_info in entity_map.items(), from position i on
RECURSIVE AddRelationshipsFrom(_, _, _)
AddRelationshipsFrom(g, entity_map, i) ==
    IF i > Len(entity_map.order) THEN g
    ELSE LET entity_id == entity_map.order[i]
             entity == entity_map.info[entity_id].data
         IN  AddRelationshipsFrom(
                 AddEntityEdges(g, entity_map, entity_id, EntityReferences(entity)),
                 entity_map, i + 1)

AddRelationships(g, entity_map) == AddRelationshipsFrom(g, entity_map, 1)

AddGraphMetadata(g, database) ==
    LET metadata == Get(database, "_metadata", NoDict)
    IN  [g EXCEPT !.info =
            [filename |-> Get(metadata, "filename", Lit("unknown")),
             loaded_at |-> Get(metadata, "loaded_at", Lit("")),
             entity_counts |-> Get(metadata, "entity_counts", NoDict),
             title |-> Get(database, "title", Lit("")),
             description |-> Get(database, "description", Lit(""))]]

\* The entities of a database as <<entity_type, entity>> pairs in the order
\* build_graph and combine_databases visit them.
DatabaseEntities(database) ==
    Flatten([t \in 1..Len(EntityTypes) |->
        IF EntityTypes[t] \in DOMAIN database
        THEN [i \in 1..Len(database[EntityTypes[t]]) |->
                <<EntityTypes[t], database[EntityTypes[t]][i]>>]
        ELSE <<>>])

\* entity_map = {}
EmptyEntityMap == [order |-> <<>>, info |-> NoDict]

\* entity_map[node_id] = {...}: a key already present keeps its position.
EntityMapPut(entity_map, node_id, entity_type, entity) ==
    [order |-> IF node_id \in DOMAIN entity_map.info THEN entity_map.order
               ELSE Append(entity_map.order, node_id),
     info |-> (node_id :> [type |-> entity_type, data |-> entity]) @@ entity_map.info]

\* The node-adding loop of build_graph over the remaining entities.
RECURSIVE AddNodes(_, _, _, _)
AddNodes(st, entities, i, include_metadata) ==
    IF i > Len(entities) THEN st
    ELSE LET entity_type == entities[i][1]
             entity == entities[i][2]
             node_id == Get(entity, "id", PyNone)
         IN  IF ~Truthy(node_id) THEN AddNodes(st, entities, i + 1, include_metadata)
             ELSE AddNodes(
                    [graph |-> AddNode(st.graph, node_id, entity, entity_type, include_metadata),
                     entity_map |-> EntityMapPut(st.entity_map, node_id, entity_type, entity)],
                    entities, i + 1, include_metadata)

\* build_graph(database, include_metadata), building into the graph object g0
\* that nx.Graph() returned.
BuildGraph(g0, database, include_metadata) ==
    LET st == AddNodes([graph |-> g0, entity_map |-> EmptyEntityMap],
                       DatabaseEntities(database), 1, include_metadata)
        g1 == AddRelationships(st.graph, st.entity_map)
    IN  IF include_metadata THEN AddGraphMetadata(g1, database) ELSE g1

\* The <<db_name, entity_type, entity>> triples in the order combine_databases
\* visits them: sources in caller order, entity types in self.entity_types
\* order, entities in list order.
CombineWork(databases) ==
    Flatten([d \in 1..Len(databases) |->
        LET es == DatabaseEntities(databases[d].db)
        IN  [i \in 1..Len(es) |-> <<databases[d].name, es[i][1], es[i][2]>>]])

\* entity_copy = entity.copy(); entity_copy['_source_database'] = db_name
TaggedCopy(entity, db_name) == ("_source_database" :> Lit(db_name)) @@ entity

\* combine_databases with one seen_ids set for all entity types.
CombineEntityAnyType(acc, db_name, entity_type, entity) ==
    LET entity_id == Get(entity, "id", PyNone)
        counts == acc.combined["_metadata"].entity_counts
    IN  IF Truthy(entity_id) /\ \A t \in DOMAIN acc.seen_ids : entity_id \notin acc.seen_ids[t]
        THEN [combined |->
                [acc.combined EXCEPT
                    ![entity_type] = Append(@, TaggedCopy(entity, db_name)),
                    !["_metadata"].entity_counts =
                        (entity_type :> (Get(counts, entity_type, 0) + 1)) @@ counts],
              seen_ids |-> [acc.seen_ids EXCEPT ![entity_type] = @ \cup {entity_id}]]
        ELSE acc

\* The innermost loop body of combine_databases.
CombineEntity(acc, db_name, entity_type, entity) ==
    LET entity_id == Get(entity, "id", PyNone)
        counts == acc.combined["_metadata"].entity_counts
    IN  IF Truthy(entity_id) /\ entity_id \notin acc.seen_ids[entity_type]
        THEN [combined |->
                [acc.combined EXCEPT
                    ![entity_type] = Append(@, TaggedCopy(entity, db_name)),
                    !["_metadata"].entity_counts =
                        (entity_type :> (Get(counts, entity_type, 0) + 1)) @@ counts],
              seen_ids |-> [acc.seen_ids EXCEPT ![entity_type] = @ \cup {entity_id}]]
        ELSE acc

RECURSIVE CombineFrom(_, _, _)
CombineFrom(acc, work, i) ==
    IF i > Len(work) THEN acc
    ELSE CombineFrom(CombineEntity(acc, work[i][1], work[i][2], work[i][3]), work, i + 1)

TypeSet == {EntityTypes[t] : t \in 1..Len(EntityTypes)}

\* combine_databases(databases); databases is the caller's dict as the
\* sequence of its items.
CombineDatabases(databases) ==
    LET combined0 ==
            [t \in TypeSet |-> <<>>]
            @@ ("_metadata" :>
                    [combined_from |-> [d \in 1..Len(databases) |-> databases[d].name],
                     entity_counts |-> NoDict])
        seen0 == [t \in TypeSet |-> {}]
    IN  CombineFrom([combined |-> combined0, seen_ids |-> seen0],
                    CombineWork(databases), 1).combined

\* What combine_databases leaves of the databases it was given: every write
\* goes to entity.copy(), none to an input record or list.
CombineLeaves(databases) == databases

\* build_graph caching each record's primary name on the record itself.
BuildLeavesLabelled(database) ==
    [t \in DOMAIN database |->
        IF t \in TypeSet
        THEN [i \in 1..Len(database[t]) |->
                ("label" :> ExtractPrimaryName(database[t][i])) @@ database[t][i]]
        ELSE database[t]]

\* What build_graph leaves of the database it was given: it only reads the
\* records (the node's data attribute is a reference to the record).
BuildLeaves(database) == database

----------------------------------------------------------------------------
(* FilterSystem *)

\* What a filter function does: it raises, or returns a set of node ids.
Raised == [raised |-> TRUE, nodes |-> {}]

Matched(nodes) == [raised |-> FALSE, nodes |-> nodes]

NodeIds(g) == DOMAIN g.nodes

\* data.get('data', {})
EntityData(data) == IF "data" \in DOMAIN data THEN data["data"].v ELSE NoDict

\* d.get(key, '') is a string, so that .lower() does not raise
HasStr(d, key) == IsStr(Get(d, key, EmptyStr))

\* d.get(key, '').lower()
LowerOf(d, key) == Lower(Get(d, key, EmptyStr).v)

\* A filter function whose loop classifies each node as "match", "no" or
\* "raise": the first raise aborts the call.
LoopOutcome(class) ==
    IF \E n \in DOMAIN class : class[n] = "raise" THEN Raised
    ELSE Matched({n \in DOMAIN class : class[n] = "match"})

\* for name_obj in names: a dict whose lowered value contains the needle
RECURSIVE ScanNames(_, _)
ScanNames(names, needle) ==
    IF names = <<>> THEN "no"
    ELSE IF IsDict(Head(names))
         THEN IF ~HasStr(Head(names).v, "value") THEN "raise"
              ELSE IF IsSubstr(needle, LowerOf(Head(names).v, "value")) THEN "match"
              ELSE ScanNames(Tail(names), needle)
         ELSE ScanNames(Tail(names), needle)

\* for field in fields: the lowered field of the entity contains the needle
RECURSIVE ScanFields(_, _, _)
ScanFields(entity_data, fields, needle) ==
    IF fields = <<>> THEN "no"
    ELSE IF ~HasStr(entity_data, Head(fields)) THEN "raise"
         ELSE IF IsSubstr(needle, LowerOf(entity_data, Head(fields))) THEN "match"
         ELSE ScanFields(entity_data, Tail(fields), needle)

CountryNode(data, country_lower) ==
    IF ~HasStr(data, "country") THEN "raise"
    ELSE IF LowerOf(data, "country") = country_lower THEN "match"
    ELSE IF ~HasStr(data, "owner") THEN "raise"
    ELSE IF EndsWith(LowerOf(data, "owner"), country_lower) THEN "match"
    ELSE IF ~HasStr(data, "nationality") THEN "raise"
    ELSE IF EndsWith(LowerOf(data, "nationality"), country_lower) THEN "match"
    ELSE IF Get(data, "type", PyNone) = Lit("country") /\ "names" \in DOMAIN EntityData(data)
         THEN ScanNames(EntityData(data)["names"].v, country_lower)
    ELSE "no"

FilterByCountry(g, country) ==
    IF ~IsStr(country) THEN Raised
    ELSE LoopOutcome([n \in NodeIds(g) |->
             CountryNode(g.nodes[n], Lower(country.v))])

FilterByType(g, entity_type) ==
    Matched({n \in NodeIds(g) : Get(g.nodes[n], "type", PyNone) = entity_type})

\* text.strip() of blanks
RECURSIVE Strip(_)
Strip(s) ==
    IF s # <<>> /\ Head(s) = " " THEN Strip(Tail(s))
    ELSE IF s # <<>> /\ s[Len(s)] = " " THEN Strip(SubSeq(s, 1, Len(s) - 1))
    ELSE s

RECURSIVE DigitsValue(_)
DigitsValue(s) ==
    IF s = <<>> THEN 0 ELSE 10 * DigitsValue(SubSeq(s, 1, Len(s) - 1)) + DigitVal(s[Len(s)])

\* int(text): blanks stripped, an optional sign, then decimal digits
ParseStr(text) ==
    LET t == Strip(text)
        signed == t # <<>> /\ Head(t) \in {"+", "-"}
        body == IF signed THEN Tail(t) ELSE t
    IN  IF body # <<>> /\ \A i \in 1..Len(body) : body[i] \in Digits
        THEN [ok |-> TRUE,
              val |-> IF signed /\ Head(t) = "-" THEN -DigitsValue(body) ELSE DigitsValue(body)]
        ELSE [ok |-> FALSE, val |-> 0]

\* int(x) under try/except (ValueError, TypeError)
ParseInt(x) ==
    CASE x.k = "int" -> [ok |-> TRUE, val |-> x.v]
      [] x.k = "str" -> ParseStr(x.v)
      [] x.k = "float" -> [ok |-> TRUE, val |-> x.v]
      [] OTHER -> [ok |-> FALSE, val |-> 0]

FilterByYear(g, year) ==
    IF ~ParseInt(year).ok THEN Matched({})
    ELSE LET target_year == PyInt(ParseInt(year).val)
         IN  Matched({n \in NodeIds(g) :
                \/ Get(g.nodes[n], "year", PyNone) = target_year
                \/ Get(EntityData(g.nodes[n]), "year", PyNone) = target_year})

\* text.split(sep) for a one-character separator
RECURSIVE Split(_, _)
Split(text, sep) ==
    IF \A i \in 1..Len(text) : text[i] # sep THEN <<text>>
    ELSE LET i == Least({j \in 1..Len(text) : text[j] = sep})
         IN  <<SubSeq(text, 1, i - 1)>> \o Split(SubSeq(text, i + 1, Len(text)), sep)

\* node_year and start_year <= node_year <= end_year
YearInRange(node_year, start_year, end_year) ==
    IF ~Truthy(node_year) THEN "no"
    ELSE IF ~IsInt(node_year) THEN "raise"
    ELSE IF start_year <= node_year.v /\ node_year.v <= end_year THEN "match"
    ELSE "no"

YearRangeNode(data, start_year, end_year) ==
    LET first == YearInRange(Get(data, "year", PyNone), start_year, end_year)
    IN  IF first # "no" THEN first
        ELSE YearInRange(Get(EntityData(data), "year", PyNone), start_year, end_year)

FilterByYearRange(g, year_range) ==
    IF ~IsStr(year_range) THEN Raised
    ELSE LET parts == Split(year_range.v, "-")
         IN  IF Len(parts) # 2 \/ ~ParseStr(parts[1]).ok \/ ~ParseStr(parts[2]).ok
             THEN Matched({})
             ELSE LoopOutcome([n \in NodeIds(g) |->
                          YearRangeNode(g.nodes[n], ParseStr(parts[1]).val, ParseStr(parts[2]).val)])

ManufacturerNode(data, manufacturer_lower) ==
    IF ~HasStr(data, "manufacturer") THEN "raise"
    ELSE IF IsSubstr(manufacturer_lower, LowerOf(data, "manufacturer")) THEN "match"
    ELSE IF ~HasStr(EntityData(data), "make") THEN "raise"
    ELSE IF IsSubstr(manufacturer_lower, LowerOf(EntityData(data), "make")) THEN "match"
    ELSE "no"

FilterByManufacturer(g, manufacturer) ==
    IF ~IsStr(manufacturer) THEN Raised
    ELSE LoopOutcome([n \in NodeIds(g) |->
             ManufacturerNode(g.nodes[n], Lower(manufacturer.v))])

\* The loop body shared by the filters that test one string attribute.
AttrNode(data, attribute, needle) ==
    IF ~HasStr(data, attribute) THEN "raise"
    ELSE IF IsSubstr(needle, LowerOf(data, attribute)) THEN "match"
    ELSE "no"

FilterByOwner(g, owner) ==
    IF ~IsStr(owner) THEN Raised
    ELSE LoopOutcome([n \in NodeIds(g) |->
             AttrNode(g.nodes[n], "owner", Lower(owner.v))])

\* The loop body shared by the filters restricted to one node type.
TypedAttrNode(data, node_type, attribute, needle) ==
    IF Get(data, "type", PyNone) = Lit(node_type)
    THEN AttrNode(data, attribute, needle)
    ELSE "no"

FilterByVehicleType(g, vehicle_type) ==
    IF ~IsStr(vehicle_type) THEN Raised
    ELSE LoopOutcome([n \in NodeIds(g) |->
             TypedAttrNode(g.nodes[n], "vehicle", "vehicle_type", Lower(vehicle_type.v))])

FilterByOrganizationType(g, org_type) ==
    IF ~IsStr(org_type) THEN Raised
    ELSE LoopOutcome([n \in NodeIds(g) |->
             TypedAttrNode(g.nodes[n], "militaryOrganization", "organization_type",
                           Lower(org_type.v))])

FilterByAreaType(g, area_type) ==
    IF ~IsStr(area_type) THEN Raised
    ELSE LoopOutcome([n \in NodeIds(g) |->
             TypedAttrNode(g.nodes[n], "area", "area_type", Lower(area_type.v))])

FilterByRelationship(g, relationship) ==
    Matched(UNION {e \in DOMAIN g.edges :
                      Get(g.edges[e], "relationship", PyNone) = relationship})

KeywordNode(n, data, keyword_lower) ==
    IF ~HasStr(data, "label") THEN "raise"
    ELSE IF IsSubstr(keyword_lower, LowerOf(data, "label")) THEN "match"
    ELSE IF ~IsStr(n) THEN "raise"
    ELSE IF IsSubstr(keyword_lower, Lower(n.v)) THEN "match"
    ELSE LET entity_data == EntityData(data)
             in_names == IF "names" \in DOMAIN entity_data
                         THEN ScanNames(entity_data["names"].v, keyword_lower)
                         ELSE "no"
             in_fields == ScanFields(entity_data,
                                     <<"description", "title", "model", "make">>,
                                     keyword_lower)
         IN  IF in_names = "raise" \/ in_fields = "raise" THEN "raise"
             ELSE IF in_names = "match" \/ in_fields = "match" THEN "match"
             ELSE "no"

FilterByKeyword(g, keyword) ==
    IF ~IsStr(keyword) THEN Raised
    ELSE LoopOutcome([n \in NodeIds(g) |->
             KeywordNode(n, g.nodes[n], Lower(keyword.v))])

\* graph.neighbors(node)
Neighbors(g, n) == {m \in NodeIds(g) : {n, m} \in DOMAIN g.edges /\ m # n}

\* graph.degree(node); a self-loop counts twice
Degree(g, n) ==
    Cardinality({e \in DOMAIN g.edges : n \in e}) + (IF {n} \in DOMAIN g.edges THEN 1 ELSE 0)

FilterByConnection(g, target_node) ==
    IF target_node \notin NodeIds(g) THEN Matched({})
    ELSE Matched(Neighbors(g, target_node) \cup {target_node})

\* _filter_by_min_degree keeping only the degrees above the bound.
FilterByMinDegreeStrict(g, min_degree) ==
    IF ~ParseInt(min_degree).ok THEN Matched({})
    ELSE Matched({n \in NodeIds(g) : Degree(g, n) > ParseInt(min_degree).val})

FilterByMinDegree(g, min_degree) ==
    IF ~ParseInt(min_degree).ok THEN Matched({})
    ELSE Matched({n \in NodeIds(g) : Degree(g, n) >= ParseInt(min_degree).val})

FilterByMaxDegree(g, max_degree) ==
    IF ~ParseInt(max_degree).ok THEN Matched({})
    ELSE Matched({n \in NodeIds(g) : Degree(g, n) <= ParseInt(max_degree).val})

\* self.equipment_categories
EquipmentCategories ==
    [aircraft_unmanned |->
        {"unmanned aircraft", "aircraft", "drone", "uav",
         "unmanned aerial vehicle"},
     communication_electronics |->
        {"communication equipment", "electronic system", "computer system", "sensor",
         "sensor system", "equipment", "electronic_system", "radar",
         "radio", "electronics"},
     weapons_defense |->
        {"artillery", "missile", "defense system", "weapon",
         "ammunition", "gun", "cannon", "launcher",
         "rocket", "bomb"},
     vehicles |->
        {"armored vehicle", "vehicle", "car", "motorcycle",
         "truck", "bus", "van", "bicycle",
         "tank", "apc", "armored"},
     naval_assets |->
        {"naval vessel", "vessel", "boat", "watercraft",
         "ship", "submarine", "destroyer", "frigate",
         "carrier"},
     transportation |->
        {"train", "railway", "locomotive", "transport"},
     administrative |->
        {"organization", "other", "command", "headquarters",
         "base"},
     geographic |->
        {"country", "area", "coordinates", "location",
         "region", "territory"}]

\* The keywords that every selected registered category lists, where the
\* code collects those that any of them lists.
CategoryKeywordsShared(categories) ==
    {k \in UNION {{Lower(Chars(w)) : w \in EquipmentCategories[c]} :
                     c \in {d \in DOMAIN EquipmentCategories : Lit(d) \in categories}} :
        \A c \in {d \in DOMAIN EquipmentCategories : Lit(d) \in categories} :
            k \in {Lower(Chars(w)) : w \in EquipmentCategories[c]}}

\* category_keywords: the keywords of the selected categories that are
\* registered, each as keyword.lower(), the form every test uses
CategoryKeywords(categories) ==
    UNION {{Lower(Chars(k)) : k \in EquipmentCategories[c]} :
                c \in {d \in DOMAIN EquipmentCategories : Lit(d) \in categories}}

\* for keyword in category_keywords: if keyword.lower() in text
AnyKeywordIn(keywords, text) == \E k \in keywords : IsSubstr(k, text)

\* data.get(attribute, '').lower() contains one of the keywords
KeywordsIn(data, attribute, keywords) ==
    IF ~HasStr(data, attribute) THEN "raise"
    ELSE IF AnyKeywordIn(keywords, LowerOf(data, attribute)) THEN "match"
    ELSE "no"

\* for name_obj in names: a dict whose lowered value contains a keyword
RECURSIVE ScanNamesAny(_, _)
ScanNamesAny(names, keywords) ==
    IF names = <<>> THEN "no"
    ELSE IF IsDict(Head(names))
         THEN IF ~HasStr(Head(names).v, "value") THEN "raise"
              ELSE IF AnyKeywordIn(keywords, LowerOf(Head(names).v, "value")) THEN "match"
              ELSE ScanNamesAny(Tail(names), keywords)
         ELSE ScanNamesAny(Tail(names), keywords)

\* for field in fields: the lowered field of the entity contains a keyword
RECURSIVE ScanFieldsAny(_, _, _)
ScanFieldsAny(entity_data, fields, keywords) ==
    IF fields = <<>> THEN "no"
    ELSE IF ~HasStr(entity_data, Head(fields)) THEN "raise"
         ELSE IF AnyKeywordIn(keywords, LowerOf(entity_data, Head(fields))) THEN "match"
         ELSE ScanFieldsAny(entity_data, Tail(fields), keywords)

\* if node_matched: continue
OrElse(first, next) == IF first # "no" THEN first ELSE next

\* The loop body stopping after its test of the node's type.
EquipmentNodeTypeOnly(data, categories, keywords) == KeywordsIn(data, "type", keywords)

\* The loop body of _filter_by_equipment_category for one node.
EquipmentNode(data, categories, keywords) ==
    OrElse(KeywordsIn(data, "type", keywords),
    OrElse(IF Lit("vehicle") \in categories \/ Lit("vehicles") \in categories
           THEN KeywordsIn(data, "vehicle_type", keywords) ELSE "no",
    OrElse(IF Lit("administrative") \in categories
           THEN KeywordsIn(data, "organization_type", keywords) ELSE "no",
    OrElse(IF Lit("geographic") \in categories
           THEN KeywordsIn(data, "area_type", keywords) ELSE "no",
    OrElse(KeywordsIn(data, "label", keywords),
    OrElse(IF "names" \in DOMAIN EntityData(data)
           THEN ScanNamesAny(EntityData(data)["names"].v, keywords)
           ELSE "no",
           ScanFieldsAny(EntityData(data),
                         <<"description", "title", "model", "make", "classification">>,
                         keywords)))))))

\* The node loop of _filter_by_equipment_category.
EquipmentLoop(g, categories, keywords) ==
    IF keywords = {} THEN Matched({})
    ELSE LoopOutcome([n \in NodeIds(g) |-> EquipmentNode(g.nodes[n], categories, keywords)])

\* The search of _filter_by_equipment_category for a collection of categories.
EquipmentSearch(g, categories) ==
    IF \E c \in categories : IsList(c) \/ IsDict(c) THEN Raised
    ELSE EquipmentLoop(g, categories, CategoryKeywords(categories))

FilterByEquipmentCategory(g, categories) ==
    IF IsStr(categories) THEN EquipmentSearch(g, {categories})
    ELSE IF IsList(categories)
         THEN EquipmentSearch(g, {categories.v[i] : i \in 1..Len(categories.v)})
    ELSE IF IsDict(categories)
         THEN EquipmentSearch(g, {Lit(k) : k \in DOMAIN categories.v})
    ELSE Raised

\* The keys of self.available_filters.
AvailableFilters ==
    {"country", "type", "year", "year_range", "manufacturer", "owner", "vehicle_type",
     "organization_type", "area_type", "relationship", "keyword", "has_connection",
     "degree_min", "degree_max", "equipment_category"}

\* self.available_filters[filter_name](graph, filter_value)
FilterFunc(filter_name, g, filter_value) ==
    CASE filter_name = "country" -> FilterByCountry(g, filter_value)
      [] filter_name = "type" -> FilterByType(g, filter_value)
      [] filter_name = "year" -> FilterByYear(g, filter_value)
      [] filter_name = "year_range" -> FilterByYearRange(g, filter_value)
      [] filter_name = "manufacturer" -> FilterByManufacturer(g, filter_value)
      [] filter_name = "owner" -> FilterByOwner(g, filter_value)
      [] filter_name = "vehicle_type" -> FilterByVehicleType(g, filter_value)
      [] filter_name = "organization_type" -> FilterByOrganizationType(g, filter_value)
      [] filter_name = "area_type" -> FilterByAreaType(g, filter_value)
      [] filter_name = "relationship" -> FilterByRelationship(g, filter_value)
      [] filter_name = "keyword" -> FilterByKeyword(g, filter_value)
      [] filter_name = "has_connection" -> FilterByConnection(g, filter_value)
      [] filter_name = "degree_min" -> FilterByMinDegree(g, filter_value)
      [] filter_name = "degree_max" -> FilterByMaxDegree(g, filter_value)
      [] filter_name = "equipment_category" -> FilterByEquipmentCategory(g, filter_value)

\* return graph, where the code returns graph.copy()
NxSame(g, oid) == g

\* graph.copy(): a new graph object with the same nodes, edges and attributes
NxCopy(g, oid) == [g EXCEPT !.oid = oid]

\* A new graph of the surviving nodes alone, their edges not carried over.
NxNodesCopy(g, nodes, oid) ==
    [oid |-> oid,
     nodes |-> [n \in NodeIds(g) \cap nodes |-> g.nodes[n]],
     edges |-> NoDict,
     info |-> g.info]

\* graph.subgraph(nodes).copy(): the nodes of the graph among the given ones
\* and the edges of the graph between them, in a new graph object
NxSubgraphCopy(g, nodes, oid) ==
    [oid |-> oid,
     nodes |-> [n \in NodeIds(g) \cap nodes |-> g.nodes[n]],
     edges |-> [e \in {d \in DOMAIN g.edges : d \subseteq nodes} |-> g.edges[e]],
     info |-> g.info]

\* What a FilterSystem call does: it raises, or returns a graph.
Raises == [raised |-> TRUE, ret |-> NewGraph(0)]

Returns(g) == [raised |-> FALSE, ret |-> g]

\* valid_nodes = valid_nodes.intersection(filtered_nodes), unless the filter
\* function raised
Narrow(valid_nodes, filtered_nodes) ==
    IF filtered_nodes.raised THEN Raised
    ELSE Matched(valid_nodes \cap filtered_nodes.nodes)

\* apply_filters leaving its loop after the first entry of the filter map.
RECURSIVE ApplyLoopFirstOnly(_, _, _, _)
ApplyLoopFirstOnly(g, filters, i, valid_nodes) ==
    IF i > Len(filters) \/ i > 1 \/ valid_nodes.raised THEN valid_nodes
    ELSE IF filters[i][1] \in AvailableFilters
         THEN ApplyLoopFirstOnly(g, filters, i + 1,
                  Narrow(valid_nodes.nodes, FilterFunc(filters[i][1], g, filters[i][2])))
         ELSE ApplyLoopFirstOnly(g, filters, i + 1, valid_nodes)

\* apply_filters handing each filter function the subgraph of the nodes the
\* earlier filters left, where the code hands it the whole graph.
RECURSIVE ApplyLoopNarrowed(_, _, _, _)
ApplyLoopNarrowed(g, filters, i, valid_nodes) ==
    IF i > Len(filters) \/ valid_nodes.raised THEN valid_nodes
    ELSE IF filters[i][1] \in AvailableFilters
         THEN ApplyLoopNarrowed(g, filters, i + 1,
                  Narrow(valid_nodes.nodes,
                         FilterFunc(filters[i][1],
                                    NxSubgraphCopy(g, valid_nodes.nodes, g.oid),
                                    filters[i][2])))
         ELSE ApplyLoopNarrowed(g, filters, i + 1, valid_nodes)

\* apply_filters indexing self.available_filters without the membership
\* test: an unknown name raises KeyError.
RECURSIVE ApplyLoopIndexed(_, _, _, _)
ApplyLoopIndexed(g, filters, i, valid_nodes) ==
    IF i > Len(filters) \/ valid_nodes.raised THEN valid_nodes
    ELSE IF filters[i][1] \in AvailableFilters
         THEN ApplyLoopIndexed(g, filters, i + 1,
                  Narrow(valid_nodes.nodes, FilterFunc(filters[i][1], g, filters[i][2])))
         ELSE Raised

\* The loop of apply_filters from entry i on: the node set left, or a raise.
\* Every filter function is given the whole graph.
RECURSIVE ApplyLoop(_, _, _, _)
ApplyLoop(g, filters, i, valid_nodes) ==
    IF i > Len(filters) \/ valid_nodes.raised THEN valid_nodes
    ELSE IF filters[i][1] \in AvailableFilters
         THEN ApplyLoop(g, filters, i + 1,
                        Narrow(valid_nodes.nodes, FilterFunc(filters[i][1], g, filters[i][2])))
         ELSE ApplyLoop(g, filters, i + 1, valid_nodes)

\* filtered_graph = graph.subgraph(valid_nodes).copy(), unless a filter raised
SubgraphOf(g, valid_nodes, oid) ==
    IF valid_nodes.raised THEN Raises
    ELSE Returns(NxSubgraphCopy(g, valid_nodes.nodes, oid))

\* apply_filters(graph, filters); filters is the dict as the sequence of its
\* items, oid the identity of the graph object the call allocates.
ApplyFilters(g, filters, oid) ==
    IF filters = <<>> THEN Returns(NxCopy(g, oid))
    ELSE SubgraphOf(g, ApplyLoop(g, filters, 1, Matched(NodeIds(g))), oid)

\* dict.get on a dict given as the sequence of its items
ItemGet(items, key, default) ==
    IF \E i \in 1..Len(items) : items[i][1] = key
    THEN items[CHOOSE i \in 1..Len(items) : items[i][1] = key][2]
    ELSE default

\* if not filtered_nodes: filtered_nodes = nodes
\* else: filtered_nodes = filtered_nodes.intersection(nodes)
ConditionNarrow(filtered_nodes, nodes) ==
    IF nodes.raised THEN Raised
    ELSE IF filtered_nodes = {} THEN nodes
    ELSE Matched(filtered_nodes \cap nodes.nodes)

\* The inner loop of _apply_logical_filter over one condition's filter map.
RECURSIVE ConditionLoop(_, _, _, _)
ConditionLoop(g, filters, i, filtered_nodes) ==
    IF i > Len(filters) \/ filtered_nodes.raised THEN filtered_nodes
    ELSE IF filters[i][1] \in AvailableFilters
         THEN ConditionLoop(g, filters, i + 1,
                  ConditionNarrow(filtered_nodes.nodes,
                                  FilterFunc(filters[i][1], g, filters[i][2])))
         ELSE ConditionLoop(g, filters, i + 1, filtered_nodes)

\* The condition's set left as matched whatever its 'not' says.
ConditionNotIgnored(g, condition, filtered_nodes) == filtered_nodes

\* Apply NOT if specified
ConditionNot(g, condition, filtered_nodes) ==
    IF filtered_nodes.raised THEN Raised
    ELSE IF Get(condition, "not", FALSE)
         THEN Matched(NodeIds(g) \ filtered_nodes.nodes)
         ELSE filtered_nodes

\* The node set one condition with a 'filter' key contributes.
ConditionNodes(g, condition) ==
    ConditionNot(g, condition, ConditionLoop(g, condition["filter"], 1, Matched({})))

\* result_sets.append(filtered_nodes), unless the condition raised
AppendResult(result_sets, nodes) ==
    IF nodes.raised THEN [raised |-> TRUE, sets |-> <<>>]
    ELSE [raised |-> FALSE, sets |-> Append(result_sets.sets, nodes.nodes)]

\* result_sets: the conditions' node sets in order, conditions without a
\* 'filter' key skipped; or a raise.
RECURSIVE ResultSets(_, _, _, _)
ResultSets(g, conditions, i, result_sets) ==
    IF i > Len(conditions) \/ result_sets.raised THEN result_sets
    ELSE IF "filter" \in DOMAIN conditions[i]
         THEN ResultSets(g, conditions, i + 1,
                         AppendResult(result_sets, ConditionNodes(g, conditions[i])))
         ELSE ResultSets(g, conditions, i + 1, result_sets)

RECURSIVE IntersectAll(_, _)
IntersectAll(acc, sets) ==
    IF sets = <<>> THEN acc ELSE IntersectAll(acc \cap Head(sets), Tail(sets))

RECURSIVE UnionAll(_, _)
UnionAll(acc, sets) ==
    IF sets = <<>> THEN acc ELSE UnionAll(acc \cup Head(sets), Tail(sets))

\* Combine results based on logic; graph.subgraph(final_nodes).copy()
CombineResults(g, logic, result_sets, oid) ==
    IF result_sets.raised THEN Raises
    ELSE IF logic = Lit("AND")
         THEN Returns(NxSubgraphCopy(g,
                  IF result_sets.sets = <<>> THEN {}
                  ELSE IntersectAll(Head(result_sets.sets), Tail(result_sets.sets)), oid))
    ELSE IF logic = Lit("OR")
         THEN Returns(NxSubgraphCopy(g, UnionAll({}, result_sets.sets), oid))
    ELSE Returns(NxSubgraphCopy(g,
                  IF result_sets.sets = <<>> THEN {}
                  ELSE IntersectAll(Head(result_sets.sets), Tail(result_sets.sets)), oid))

\* _apply_logical_filter(graph, filter_config)
ApplyLogicalFilter(g, filter_config, oid) ==
    IF ItemGet(filter_config, "conditions", <<>>) = <<>> THEN Returns(NxCopy(g, oid))
    ELSE CombineResults(g, ItemGet(filter_config, "logic", Lit("AND")),
                        ResultSets(g, ItemGet(filter_config, "conditions", <<>>), 1,
                                   [raised |-> FALSE, sets |-> <<>>]),
                        oid)

\* create_advanced_filter(graph, filter_config)
CreateAdvancedFilter(g, filter_config, oid) ==
    IF \E i \in 1..Len(filter_config) : filter_config[i][1] = "logic"
    THEN ApplyLogicalFilter(g, filter_config, oid)
    ELSE ApplyFilters(g, filter_config, oid)

\* What a FilterSystem call leaves of the graph it was given: the filter
\* functions only read it, the result is built by subgraph(...).copy().
FilterLeaves(g) == g

----------------------------------------------------------------------------
(* StatisticsGenerator (src/src/statistics_generator.py) *)

\* data.get(attribute, '').lower().find(country.lower()) != -1
BelongsBy(data, attribute, country_lower) ==
    IF ~HasStr(data, attribute) THEN "raise"
    ELSE IF IsSubstr(country_lower, LowerOf(data, attribute)) THEN "match"
    ELSE "no"

\* The if/elif chain that decides whether a node belongs to the country.
BelongsToCountry(data, country_lower) ==
    OrElse(BelongsBy(data, "owner", country_lower),
    OrElse(BelongsBy(data, "country", country_lower),
    OrElse(BelongsBy(data, "nationality", country_lower),
           IF Get(data, "type", PyNone) = Lit("country")
           THEN BelongsBy(data, "label", country_lower)
           ELSE "no")))

\* A value that can be the key of a dict.
Hashable(x) == ~IsList(x) /\ ~IsDict(x)

\* Counter(): how many members of the domain carry each key.
Counter(keys) ==
    [k \in {keys[n] : n \in DOMAIN keys} |->
        Cardinality({n \in DOMAIN keys : keys[n] = k})]

\* The nodes among the given ones whose type attribute is entity_type.
TypedNodes(g, nodes, entity_type) ==
    {n \in nodes : Get(g.nodes[n], "type", PyNone) = Lit(entity_type)}

\* The nodes among the given ones with a truthy year attribute.
DatedNodes(g, nodes) == {n \in nodes : Truthy(Get(g.nodes[n], "year", PyNone))}

\* The attribute of each of the given nodes, 'unknown' where it is absent.
KeysOf(g, nodes, attribute) ==
    [n \in nodes |-> Get(g.nodes[n], attribute, Lit("unknown"))]

\* country_stats for the nodes found to belong to the country.
CountryStats(g, owned) ==
    [total_assets |-> Cardinality(owned),
     vehicles |-> Cardinality(TypedNodes(g, owned, "vehicle")),
     organizations |-> Cardinality(TypedNodes(g, owned, "militaryOrganization")),
     areas |-> Cardinality(TypedNodes(g, owned, "area")),
     people |-> Cardinality(TypedNodes(g, owned, "person")),
     vehicle_types |-> Counter(KeysOf(g, TypedNodes(g, owned, "vehicle"), "vehicle_type")),
     organization_types |->
        Counter(KeysOf(g, TypedNodes(g, owned, "militaryOrganization"), "organization_type")),
     manufacturers |-> Counter(KeysOf(g, TypedNodes(g, owned, "vehicle"), "manufacturer")),
     timeline |-> Counter(KeysOf(g, DatedNodes(g, owned), "year"))]

\* The counters of country_stats take every key they are given.
StatsKeysHashable(g, owned) ==
    /\ \A n \in TypedNodes(g, owned, "vehicle") :
        /\ Hashable(Get(g.nodes[n], "vehicle_type", Lit("unknown")))
        /\ Hashable(Get(g.nodes[n], "manufacturer", Lit("unknown")))
    /\ \A n \in TypedNodes(g, owned, "militaryOrganization") :
        Hashable(Get(g.nodes[n], "organization_type", Lit("unknown")))
    /\ \A n \in DatedNodes(g, owned) : Hashable(g.nodes[n]["year"])

\* _analyze_single_country once every node is classified.
CountryOutcome(g, found) ==
    IF found.raised \/ ~StatsKeysHashable(g, found.nodes) THEN Raises
    ELSE Returns(CountryStats(g, found.nodes))

\* _analyze_single_country(graph, country)
AnalyzeSingleCountry(g, country) ==
    CountryOutcome(g, LoopOutcome([n \in NodeIds(g) |->
                          BelongsToCountry(g.nodes[n], Lower(country.v))]))

\* decade = (year // 10) * 10 for every year of a timeline: a string year
\* raises.
DecadesOf(timeline) ==
    IF \E year \in DOMAIN timeline : IsStr(year) THEN Raises
    ELSE Returns({IF IsInt(year) THEN (year.v \div 10) * 10 ELSE 0 :
                    year \in DOMAIN timeline})

\* The nodes _compare_technology_timelines and _compare_asset_types count
\* for a country: owner or country names it.
OwnedBy(g, country_lower) ==
    LoopOutcome([n \in NodeIds(g) |->
        OrElse(BelongsBy(g.nodes[n], "owner", country_lower),
               BelongsBy(g.nodes[n], "country", country_lower))])

\* _compare_technology_timelines for one country
TechnologyTimeline(g, owned) ==
    Counter(KeysOf(g, DatedNodes(g, TypedNodes(g, owned, "vehicle")
                                    \cup TypedNodes(g, owned, "militaryOrganization")),
                   "year"))

\* _compare_asset_types for one country
AssetTypes(g, owned) == Counter(KeysOf(g, owned, "type"))

\* The comparison of one country: its statistics, its decades, its
\* timeline and its asset types.  The rankings and top-three lists, which
\* order these counts, are left out.
CountryComparison(g, country, single) ==
    IF single.raised THEN Raises
    ELSE IF DecadesOf(single.ret.timeline).raised THEN Raises
    ELSE IF \E n \in OwnedBy(g, Lower(country.v)).nodes :
                ~Hashable(Get(g.nodes[n], "type", Lit("unknown")))
         THEN Raises
    ELSE Returns([stats |-> single.ret,
                  decades |-> DecadesOf(single.ret.timeline).ret,
                  technology_timeline |->
                      TechnologyTimeline(g, OwnedBy(g, Lower(country.v)).nodes),
                  asset_types |-> AssetTypes(g, OwnedBy(g, Lower(country.v)).nodes)])

\* The comparison once every country is analysed.
ComparisonOf(countries, each) ==
    IF \E i \in 1..Len(countries) : each[i].raised THEN Raises
    ELSE Returns([countries |->
                    [c \in {countries[i] : i \in 1..Len(countries)} |->
                        each[CHOOSE i \in 1..Len(countries) : countries[i] = c].ret.stats],
                  vehicle_counts |->
                    [c \in {countries[i] : i \in 1..Len(countries)} |->
                        each[CHOOSE i \in 1..Len(countries) : countries[i] = c].ret.stats.vehicles],
                  technology_timeline |->
                    [c \in {countries[i] : i \in 1..Len(countries)} |->
                        each[CHOOSE i \in 1..Len(countries) :
                                countries[i] = c].ret.technology_timeline],
                  asset_types |->
                    [c \in {countries[i] : i \in 1..Len(countries)} |->
                        each[CHOOSE i \in 1..Len(countries) : countries[i] = c].ret.asset_types]])

\* compare_countries(graph, countries, databases)
CompareCountries(g, countries) ==
    ComparisonOf(countries,
                 [i \in 1..Len(countries) |->
                    CountryComparison(g, countries[i], AnalyzeSingleCountry(g, countries[i]))])

\* A float the score arithmetic produces, as the exact fraction num/den
\* with den > 0.
Frac(num, den) == [num |-> num, den |-> den]

FracAdd(a, b) == Frac(a.num * b.den + b.num * a.den, a.den * b.den)

FracMul(a, b) == Frac(a.num * b.num, a.den * b.den)

FracLeq(a, b) == a.num * b.den <= b.num * a.den

\* min(a, b)
FracMin(a, b) == IF FracLeq(b, a) /\ ~FracLeq(a, b) THEN b ELSE a

\* max(1, n)
AtLeastOne(n) == IF 1 >= n THEN 1 ELSE n

\* required_fields + optional_fields
QualityFields == {"type", "label", "year", "country", "manufacturer", "owner"}

\* The types _calculate_consistency_score accepts.
ConsistentTypes ==
    {Lit("country"), Lit("vehicle"), Lit("person"), Lit("area"), Lit("militaryOrganization")}

\* _calculate_completeness_score(graph)
CalculateCompletenessScore(g) ==
    Frac(Cardinality({p \in NodeIds(g) \X QualityFields :
                        p[2] \in DOMAIN g.nodes[p[1]] /\ Truthy(g.nodes[p[1]][p[2]])}),
         AtLeastOne(Cardinality(NodeIds(g) \X QualityFields)))

\* _calculate_consistency_score(graph)
CalculateConsistencyScore(g) ==
    Frac(Cardinality({n \in NodeIds(g) :
                        "type" \in DOMAIN g.nodes[n] /\ g.nodes[n]["type"] \in ConsistentTypes}),
         AtLeastOne(Cardinality(NodeIds(g))))

\* connectivity_score * 0.3 + completeness_score * 0.5 + consistency_score * 0.2
WeightedQuality(g) ==
    FracAdd(FracAdd(FracMul(Frac(Cardinality(DOMAIN g.edges),
                                 AtLeastOne(Cardinality(NodeIds(g)))),
                            Frac(3, 10)),
                    FracMul(CalculateCompletenessScore(g), Frac(5, 10))),
            FracMul(CalculateConsistencyScore(g), Frac(2, 10)))

\* The score without its cap.
CalculateDataQualityScoreUncapped(g) ==
    IF Cardinality(NodeIds(g)) = 0 THEN Frac(0, 1) ELSE WeightedQuality(g)

\* _calculate_data_quality_score(graph)
CalculateDataQualityScore(g) ==
    IF Cardinality(NodeIds(g)) = 0 THEN Frac(0, 1)
    ELSE FracMin(Frac(1, 1), WeightedQuality(g))

----------------------------------------------------------------------------
(* GraphBuilder: subgraphs and paths *)

\* The elements of a list
Range(l) == {l[i] : i \in DOMAIN l}

\* list[:n]; a negative n counts from the end
Prefix(l, n) ==
    IF n >= Len(l) THEN l
    ELSE IF n >= 0 THEN SubSeq(l, 1, n)
    ELSE IF Len(l) + n > 0 THEN SubSeq(l, 1, Len(l) + n)
    ELSE <<>>

\* nx.single_source_shortest_path_length(graph, source, cutoff).keys(): the
\* nodes within cutoff hops of the ones reached so far
RECURSIVE WithinDistance(_, _, _)
WithinDistance(g, reached, cutoff) ==
    IF cutoff <= 0 THEN reached
    ELSE WithinDistance(g, reached \cup UNION {Neighbors(g, n) : n \in reached}, cutoff - 1)

\* The nodes create_subgraph keeps when it is asked for the neighbours too.
WithNeighbors(g, entity_ids, max_distance) ==
    Range(entity_ids)
        \cup UNION {WithinDistance(g, {n}, max_distance) : n \in Range(entity_ids) \cap NodeIds(g)}

\* create_subgraph(graph, entity_ids, include_neighbors, max_distance)
CreateSubgraph(g, entity_ids, include_neighbors, max_distance, oid) ==
    IF include_neighbors
    THEN NxSubgraphCopy(g, WithNeighbors(g, entity_ids, max_distance), oid)
    ELSE NxSubgraphCopy(g, {n \in Range(entity_ids) : n \in NodeIds(g)}, oid)

\* The simple paths that extend the given one to the target within cutoff hops
RECURSIVE SimplePathsFrom(_, _, _, _)
SimplePathsFrom(g, path, target, cutoff) ==
    IF path[Len(path)] = target THEN {path}
    ELSE IF Len(path) > cutoff THEN {}
    ELSE UNION {SimplePathsFrom(g, Append(path, m), target, cutoff) :
                    m \in Neighbors(g, path[Len(path)]) \ Range(path)}

\* nx.all_simple_paths(graph, source, target, cutoff), as a set
AllSimplePaths(g, source, target, cutoff) == SimplePathsFrom(g, <<source>>, target, cutoff)

\* The paths of the fewest hops among the given ones
Shortest(paths) == {p \in paths : \A q \in paths : Len(p) <= Len(q)}

\* nx.all_shortest_paths(graph, source, target), as a set; the empty set
\* where networkx raises NetworkXNoPath
AllShortestPaths(g, source, target) ==
    Shortest(AllSimplePaths(g, source, target, Cardinality(NodeIds(g))))

\* The lists of up to n distinct elements of S, as many as S allows. networkx
\* yields paths in the order of its adjacency dicts, which the graph record
\* does not keep: every order is possible.
RECURSIVE Arrangements(_, _)
Arrangements(S, n) ==
    IF n <= 0 \/ S = {} THEN {<<>>}
    ELSE UNION {{<<x>> \o rest : rest \in Arrangements(S \ {x}, n - 1)} : x \in S}

\* find_paths with the padding loop never stopped
PathListsUnbounded(shortest, others, max_paths) ==
    {paths \o additional_paths :
        paths \in Arrangements(shortest, Cardinality(shortest)),
        additional_paths \in Arrangements(others, Cardinality(others))}

\* The lists find_paths can return for the shortest paths and the other simple
\* paths within max_length: the padding loop stops at max_paths paths in all.
PathLists(shortest, others, max_paths) ==
    {Prefix(paths \o additional_paths, max_paths) :
        paths \in Arrangements(shortest, Cardinality(shortest)),
        additional_paths \in Arrangements(others, max_paths - Cardinality(shortest))}

\* find_paths letting NetworkXNoPath through
FindPathsNoPathRaises(g, source, target, max_paths, max_length) ==
    IF source \notin NodeIds(g) \/ target \notin NodeIds(g) THEN {Returns(<<>>)}
    ELSE IF AllShortestPaths(g, source, target) = {} THEN {Raises}
    ELSE {Returns(paths) :
            paths \in PathLists(AllShortestPaths(g, source, target),
                                AllSimplePaths(g, source, target, max_length)
                                    \ AllShortestPaths(g, source, target),
                                max_paths)}

\* find_paths(graph, source, target, max_paths, max_length): the outcomes it
\* can have
FindPaths(g, source, target, max_paths, max_length) ==
    IF source \notin NodeIds(g) \/ target \notin NodeIds(g) THEN {Returns(<<>>)}
    ELSE IF AllShortestPaths(g, source, target) = {} THEN {Returns(<<>>)}
    ELSE {Returns(paths) :
            paths \in PathLists(AllShortestPaths(g, source, target),
                                AllSimplePaths(g, source, target, max_length)
                                    \ AllShortestPaths(g, source, target),
                                max_paths)}

----------------------------------------------------------------------------
(* GraphBuilder.analyze_connectivity and StatisticsGenerator.generate_statistics *)

\* nx.connected_components(graph), as a set of node sets
ConnectedComponents(g) ==
    {WithinDistance(g, {n}, Cardinality(NodeIds(g))) : n \in NodeIds(g)}

\* len(max(components, key=len)) if components else 0
LargestComponentSize(g) ==
    IF ConnectedComponents(g) = {} THEN 0
    ELSE CHOOSE k \in 0..Cardinality(NodeIds(g)) :
            /\ \E c \in ConnectedComponents(g) : Cardinality(c) = k
            /\ \A c \in ConnectedComponents(g) : Cardinality(c) <= k

\* nx.density(graph): 0 below two nodes, else 2m / (n (n - 1))
Density(g) ==
    IF Cardinality(NodeIds(g)) <= 1 THEN Frac(0, 1)
    ELSE Frac(2 * Cardinality(DOMAIN g.edges),
              Cardinality(NodeIds(g)) * (Cardinality(NodeIds(g)) - 1))

\* GraphBuilder.analyze_connectivity(graph). nx.is_connected raises
\* NetworkXPointlessConcept on a graph without nodes. The clustering
\* coefficient and the centrality lists, which are computed for every graph
\* with nodes, are left out of the report.
AnalyzeConnectivity(g) ==
    IF NodeIds(g) = {} THEN Raises
    ELSE Returns([node_count |-> Cardinality(NodeIds(g)),
                  edge_count |-> Cardinality(DOMAIN g.edges),
                  density |-> Density(g),
                  is_connected |-> Cardinality(ConnectedComponents(g)) = 1,
                  connected_components |-> Cardinality(ConnectedComponents(g)),
                  largest_component_size |-> LargestComponentSize(g)])

\* StatisticsGenerator._analyze_connectivity(graph): is_connected comes first
\* and raises on a graph without nodes. Path lengths and clustering are left
\* out of the report.
StatsConnectivity(g) ==
    IF NodeIds(g) = {} THEN Raises
    ELSE Returns([is_connected |-> Cardinality(ConnectedComponents(g)) = 1,
                  number_of_components |-> Cardinality(ConnectedComponents(g)),
                  density |-> Density(g),
                  component_sizes |-> {Cardinality(c) : c \in ConnectedComponents(g)},
                  largest_component_size |-> LargestComponentSize(g)])

\* The node's 'data' attribute can be asked for a key: entity_data.get(...)
HasEntityDict(data) == IsDict(Get(data, "data", PyDict(NoDict)))

\* A Counter or dict is indexed by the attribute when it is truthy.
KeyedIfSet(data, attribute) ==
    Truthy(Get(data, attribute, PyNone)) /\ ~Hashable(Get(data, attribute, PyNone))

\* The per-type sections of _analyze_entities raise on the node: an unhashable
\* Counter key, a year that is no number under // 10, or a 'data' attribute
\* without get.
EntitySectionRaises(data) ==
    CASE Get(data, "type", PyNone) = Lit("country") ->
            ~Hashable(Get(data, "label", PyNone))
      [] Get(data, "type", PyNone) = Lit("vehicle") ->
            \/ \E a \in {"vehicle_type", "owner", "manufacturer"} :
                    ~Hashable(Get(data, a, PyNone))
            \/ /\ Truthy(Get(data, "year", PyNone))
               /\ Get(data, "year", PyNone).k \notin {"int", "float"}
      [] Get(data, "type", PyNone) = Lit("militaryOrganization") ->
            \/ \E a \in {"organization_type", "country"} : ~Hashable(Get(data, a, PyNone))
            \/ ~HasEntityDict(data)
      [] Get(data, "type", PyNone) = Lit("person") ->
            \/ /\ IsList(Get(data, "person_types", PyList(<<>>)))
               /\ \E ptype \in Range(Get(data, "person_types", PyList(<<>>)).v) :
                    ~Hashable(ptype)
            \/ ~Hashable(Get(data, "nationality", PyNone))
            \/ ~HasEntityDict(data)
      [] Get(data, "type", PyNone) = Lit("area") ->
            \/ \E a \in {"area_type", "country"} : ~Hashable(Get(data, a, PyNone))
            \/ ~HasEntityDict(data)
            \/ ~Hashable(Get(EntityData(data), "administrativeLevel", PyNone))
      [] OTHER -> FALSE

\* data.get('owner') or data.get('country') or data.get('nationality')
TimelineCountry(data) ==
    IF Truthy(Get(data, "owner", PyNone)) THEN Get(data, "owner", PyNone)
    ELSE IF Truthy(Get(data, "country", PyNone)) THEN Get(data, "country", PyNone)
    ELSE Get(data, "nationality", PyNone)

\* The temporal, geographic and technology sections raise on the node.
TrendSectionRaises(data) ==
    \/ /\ Truthy(Get(data, "year", PyNone))
       /\ Truthy(TimelineCountry(data))
       /\ Get(data, "type", PyNone) \in {Lit("vehicle"), Lit("militaryOrganization")}
       /\ ~Hashable(Get(data, "year", PyNone)) \/ ~Hashable(TimelineCountry(data))
    \/ /\ Get(data, "type", PyNone) = Lit("vehicle")
       /\ KeyedIfSet(data, "owner") \/ KeyedIfSet(data, "manufacturer")
    \/ /\ Get(data, "type", PyNone) = Lit("area")
       /\ Get(data, "area_type", PyNone) = Lit("military")
       /\ KeyedIfSet(data, "country")

\* The report of generate_statistics on a graph no section raises on: counts,
\* node types and the connectivity section; the other sections are left out.
StatisticsReport(g) ==
    [node_count |-> Cardinality(NodeIds(g)),
     edge_count |-> Cardinality(DOMAIN g.edges),
     node_types |-> Counter(KeysOf(g, NodeIds(g), "type")),
     isolated_nodes |-> {n \in NodeIds(g) : Degree(g, n) = 0},
     connectivity |-> StatsConnectivity(g).ret]

\* StatisticsGenerator.generate_statistics(graph, database): the sections are
\* computed in turn and the first one to raise ends the call.
GenerateStatistics(g) ==
    IF \E n \in NodeIds(g) : ~Hashable(Get(g.nodes[n], "type", PyNone)) THEN Raises
    ELSE IF StatsConnectivity(g).raised THEN Raises
    ELSE IF \E n \in NodeIds(g) : EntitySectionRaises(g.nodes[n]) THEN Raises
    ELSE IF \E n \in NodeIds(g) : TrendSectionRaises(g.nodes[n]) THEN Raises
    ELSE Returns(StatisticsReport(g))

----------------------------------------------------------------------------
(* The entity collections the caller hands over *)

NameOfficialUK == PyDict([nameType |-> Lit("official"), value |-> Lit("UK")])

NameCommonUk == PyDict([nameType |-> Lit("common"), value |-> Lit("uk")])

\* The end-to-end scenario: c1, v1 owned by c1 of type vt1, vt1.
DbScenario ==
    [countries |-> <<[id |-> Lit("c1"), names |-> PyList(<<NameOfficialUK>>)]>>,
     vehicles |-> <<[id |-> Lit("v1"), owner |-> Lit("c1"), vehicleType |-> Lit("vt1"),
                     year |-> PyInt(1990), make |-> Lit("BAE")]>>,
     vehicleTypes |-> <<[id |-> Lit("vt1")]>>]

\* The same ids with other fields; v1 refers to c1 by two fields; v2's owner
\* is free text that is no id.
DbOverlap ==
    [countries |-> <<[id |-> Lit("c1"), names |-> PyList(<<NameCommonUk, NameOfficialUK>>)]>>,
     vehicles |-> <<[id |-> Lit("v1"), owner |-> Lit("c1"), country |-> Lit("c1"),
                     make |-> Lit("Tank")],
                    [id |-> Lit("v2"), owner |-> Lit("UK Army"), year |-> Lit("1990")]>>]

\* An entity without id, a self-reference, an id repeated within a collection
\* and the id v1 used in another collection.
DbClash ==
    [vehicles |-> <<[make |-> Lit("BAE")],
                    [id |-> Lit("v2"), owner |-> Lit("v2"), vehicleType |-> Lit("v1")],
                    [id |-> Lit("v2"), year |-> PyInt(1990)]>>,
     vehicleTypes |-> <<[id |-> Lit("v1"), name |-> Lit("Tank")]>>]

\* List and nested references, some resolved only after a merge, one to an
\* id no database holds; a1 also names itself in a direct, a list and a
\* nested reference.
DbPeople ==
    [people |-> <<[id |-> Lit("p1"), nationality |-> Lit("c1"),
                   personTypes |-> PyList(<<Lit("pt1"), Lit("")>>),
                   states |-> PyList(<<PyDict([location |-> Lit("a1"),
                                               organisation |-> Lit("o1")])>>)]>>,
     peopleTypes |-> <<[id |-> Lit("pt1")]>>,
     areas |-> <<[id |-> Lit("a1"), parentArea |-> Lit("a1"),
                  childAreas |-> PyList(<<Lit("a2"), Lit("x9"), Lit("a1")>>),
                  temporalParts |-> PyList(<<PyDict([location |-> Lit("c1")]),
                                             PyDict([location |-> Lit("a1")])>>)],
                 [id |-> Lit("a2"), parentArea |-> Lit("a1")]>>,
     militaryOrganizations |-> <<[id |-> Lit("o1"), headquarters |-> Lit("a1"),
                                  country |-> Lit("c1")]>>]

Corpus == <<DbScenario, DbOverlap, DbClash, DbPeople>>

\* The names the caller gives its databases, by position.
SourceNames == <<"A", "B", "C">>

\* The largest number of databases the caller hands over.
MaxSources == 2

\* The graph objects alive at once: the graph, a filter result, a new one.
MaxObjects == 3

\* Sequences of n distinct corpus indices.
RECURSIVE Picks(_)
Picks(n) ==
    IF n = 0 THEN {<<>>}
    ELSE {Append(p, c) : p \in Picks(n - 1), c \in 1..Len(Corpus)}

SourceSeqs ==
    {[i \in 1..Len(p) |-> [name |-> SourceNames[i], db |-> Corpus[p[i]]]] :
        p \in {q \in UNION {Picks(n) : n \in 1..MaxSources} :
                    \A i, j \in 1..Len(q) : i # j => q[i] # q[j]}}

----------------------------------------------------------------------------
(* DatabaseLoader: change detection and loading *)

\* DATABASE_CONFIGS: the file of each database name, two of the twenty
DatabaseConfigs ==
    [uk |-> "ies4_uk_consolidated.json", usa |-> "ies4_usa_consolidated.json"]

FileNames == {DatabaseConfigs[name] : name \in DOMAIN DatabaseConfigs}

\* The JSON texts a data file can hold, by number; text 0 is no JSON.
FileTexts == <<DbScenario, DbPeople>>

\* The latest modification time of a file
MaxMtime == 1

\* A data file: whether it is there, its text and its st_mtime.
DataFile(text, mtime) == [exists |-> TRUE, text |-> text, mtime |-> mtime]

\* The data directory as the analyzer finds it.
DataDirectory ==
    [f \in FileNames |->
        DataFile(IF f = DatabaseConfigs.uk THEN 1 ELSE 2, 0)]

\* What a reader finds in the file: its text, or nothing.
ContentOf(file) == IF file.exists THEN <<file.text>> ELSE <<>>

\* DatabaseLoader.__init__
NewLoader == [file_checksums |-> NoDict, file_mod_times |-> NoDict]

\* _calculate_file_checksum(file_path): the MD5 digest of the bytes, digests
\* of different texts taken to differ, and '' for a file that cannot be read
CalculateFileChecksum(file) == IF file.exists THEN <<"md5", file.text>> ELSE <<>>

\* self.file_mod_times[file_str] = file_path.stat().st_mtime, skipped when
\* stat raises
RecordModTime(file_mod_times, f, file) ==
    IF file.exists THEN (f :> file.mtime) @@ file_mod_times ELSE file_mod_times

\* _has_file_changed(file_path): the loader it leaves and what it returns
HasFileChanged(ld, f, file) ==
    IF /\ file.exists
       /\ f \in DOMAIN ld.file_mod_times
       /\ file.mtime = ld.file_mod_times[f]
    THEN [loader |-> ld, ret |-> FALSE]
    ELSE IF /\ f \in DOMAIN ld.file_checksums
            /\ CalculateFileChecksum(file) = ld.file_checksums[f]
    THEN [loader |-> [ld EXCEPT !.file_mod_times = RecordModTime(@, f, file)],
          ret |-> FALSE]
    ELSE [loader |-> [file_checksums |-> (f :> CalculateFileChecksum(file))
                                            @@ ld.file_checksums,
                      file_mod_times |-> RecordModTime(ld.file_mod_times, f, file)],
          ret |-> TRUE]

\* The data load_database returns for a readable JSON file: the parsed text
\* with its _metadata updated. load_timestamp, file_size and entity_counts
\* are left out.
LoadedData(f, file, force_reload) ==
    ("_metadata" :> [file_path |-> f, file_mod_time |-> file.mtime,
                     force_reloaded |-> force_reload])
    @@ FileTexts[file.text]

\* load_database(file_path, force_reload): the loader it leaves, and the data
\* it returns unless it raises FileNotFoundError or ValueError. The change
\* check is skipped under force_reload, and the file is read either way.
LoadDatabase(ld, f, file, force_reload) ==
    IF ~file.exists THEN [loader |-> ld, raised |-> TRUE, ret |-> NoDict]
    ELSE IF file.text \notin DOMAIN FileTexts
    THEN [loader |-> IF force_reload THEN ld ELSE HasFileChanged(ld, f, file).loader,
          raised |-> TRUE, ret |-> NoDict]
    ELSE [loader |-> IF force_reload THEN ld ELSE HasFileChanged(ld, f, file).loader,
          raised |-> FALSE, ret |-> LoadedData(f, file, force_reload)]

\* clear_cache()
ClearCache(ld) == NewLoader

----------------------------------------------------------------------------
(* MilitaryDatabaseAnalyzer: loaded databases and the combined graph *)

\* No file has been checked for changes.
NoChecks == [last |-> NoDict, prior |-> NoDict]

\* MilitaryDatabaseAnalyzer.__init__: self.databases = {} as the sequence of
\* its items, self.combined_graph = None as the graph object 0
NewAnalyzer == [databases |-> <<>>, combined_graph |-> NewGraph(0)]

\* list(self.databases.keys())
LoadedNames(databases) == [i \in 1..Len(databases) |-> databases[i].name]

\* self.databases[database_name] = database: a key already there keeps its
\* place
DatabasesPut(databases, name, db) ==
    IF \E i \in 1..Len(databases) : databases[i].name = name
    THEN [i \in 1..Len(databases) |->
            IF databases[i].name = name THEN [name |-> name, db |-> db] ELSE databases[i]]
    ELSE Append(databases, [name |-> name, db |-> db])

\* A databases argument: None, or a list of names
NoneArg == [none |-> TRUE, names |-> <<>>]

NamesArg(names) == [none |-> FALSE, names |-> names]

\* if databases is None: databases = list(self.databases.keys())
NamesOf(an, databases) ==
    IF databases.none THEN LoadedNames(an.databases) ELSE databases.names

\* {name: self.databases[name] for name in databases if name in self.databases}
SelectedDatabases(loaded, names) ==
    LET present == SelectSeq(names, LAMBDA n : \E i \in 1..Len(loaded) : loaded[i].name = n)
    IN  [k \in 1..Len(present) |->
            loaded[CHOOSE i \in 1..Len(loaded) : loaded[i].name = present[k]]]

\* The graph build_combined_graph builds for the named databases
CombinedGraphOf(loaded, names) ==
    BuildGraph(NewGraph(1), CombineDatabases(SelectedDatabases(loaded, names)), TRUE)

\* build_combined_graph(databases)
BuildCombinedGraphOf(an, databases) ==
    [an EXCEPT !.combined_graph = CombinedGraphOf(an.databases, NamesOf(an, databases))]

\* if self.combined_graph is None: self.build_combined_graph(databases)
EnsureCombinedGraph(an, databases) ==
    IF an.combined_graph.oid = 0 THEN BuildCombinedGraphOf(an, databases) ELSE an

\* major_countries of generate_comprehensive_report
MajorCountries ==
    <<Lit("UK"), Lit("USA"), Lit("Russia"), Lit("China"), Lit("Iran"), Lit("Poland"),
      Lit("Sweden"), Lit("Finland")>>

\* _analyze_technology_trends raises on the node: an unhashable manufacturer
TechnologyTrendsRaise(data) ==
    Get(data, "type", PyNone) = Lit("vehicle") /\ KeyedIfSet(data, "manufacturer")

\* The report once the country comparison is made: the sections are computed
\* in turn and the first one to raise ends the call. The report keeps the
\* executive summary, the databases used and the country comparison; the
\* other sections are left out.
ReportWith(g, databases, selected_databases, comparison) ==
    IF \/ \E n \in NodeIds(g) : ~Hashable(Get(g.nodes[n], "type", PyNone))
       \/ \E n \in NodeIds(g) : EntitySectionRaises(g.nodes[n])
       \/ comparison.raised
       \/ \E n \in NodeIds(g) : TechnologyTrendsRaise(g.nodes[n])
       \/ \E n \in NodeIds(g) : TrendSectionRaises(g.nodes[n])
    THEN Raises
    ELSE Returns([executive_summary |->
                      [total_entities |-> Cardinality(NodeIds(g)),
                       total_relationships |-> Cardinality(DOMAIN g.edges),
                       databases_analyzed |-> Len(databases),
                       data_quality_score |-> CalculateDataQualityScore(g)],
                  databases_used |-> selected_databases,
                  country_comparison |-> comparison.ret])

\* StatisticsGenerator.generate_comprehensive_report(graph, databases,
\* selected_databases)
GenerateComprehensiveReport(g, databases, selected_databases) ==
    ReportWith(g, databases, selected_databases, CompareCountries(g, MajorCountries))

----------------------------------------------------------------------------
(* The session: the analyzer holds databases, combines and builds *)

NoGraph == NewGraph(0)

NoResult == [op |-> "none", arg |-> <<>>, raised |-> FALSE, ret |-> NoGraph]

\* The identity of a newly allocated graph object: none of a live object.
FreshOid == CHOOSE o \in 1..MaxObjects : o \notin {graph.oid, result.ret.oid}

\* build_graph adding to the graph of the last build, where the code starts
\* from nx.Graph().
StaleGraph == [graph EXCEPT !.oid = FreshOid]

\* graph = nx.Graph() in build_graph
EmptyGraph == NewGraph(FreshOid)

Init ==
    /\ sources \in SourceSeqs
    /\ sources0 = sources
    /\ combined = NoDict
    /\ graph = NoGraph
    /\ base = NoGraph
    /\ built = NoDict
    /\ lastKey = -1
    /\ result = NoResult
    /\ disk = DataDirectory
    /\ loader = NewLoader
    /\ checked = NoChecks
    /\ analyzer = NewAnalyzer

\* GraphBuilder.combine_databases on the caller's databases
Combine ==
    /\ combined' = CombineDatabases(sources)
    /\ sources' = CombineLeaves(sources)
    /\ UNCHANGED <<disk, loader, checked, analyzer, sources0, graph, base, built, lastKey, result>>

\* GraphBuilder.build_graph on the caller's k-th database
BuildSource(k) ==
    /\ k \in 1..Len(sources)
    /\ graph' = BuildGraph(EmptyGraph, sources[k].db, TRUE)
    /\ sources' = [sources EXCEPT ![k].db = BuildLeaves(@)]
    /\ base' = graph'
    /\ built' = built @@ (k :> graph')
    /\ lastKey' = k
    /\ UNCHANGED <<disk, loader, checked, analyzer, sources0, combined, result>>

\* GraphBuilder.build_graph on the last combine_databases result
BuildCombined ==
    /\ combined # NoDict
    /\ graph' = BuildGraph(EmptyGraph, combined, TRUE)
    /\ combined' = BuildLeaves(combined)
    /\ base' = graph'
    /\ built' = built @@ (0 :> graph')
    /\ lastKey' = 0
    /\ UNCHANGED <<disk, loader, checked, analyzer, sources0, sources, result>>

\* MilitaryDatabaseAnalyzer.build_combined_graph: combine, then build.  The
\* caller has dropped the last filter result before it rebuilds.
BuildCombinedGraph ==
    /\ result.op = "none"
    /\ combined' = BuildLeaves(CombineDatabases(sources))
    /\ sources' = CombineLeaves(sources)
    /\ graph' = BuildGraph(EmptyGraph, CombineDatabases(sources), TRUE)
    /\ base' = graph'
    /\ built' = built @@ (0 :> graph')
    /\ lastKey' = 0
    /\ UNCHANGED <<disk, loader, checked, analyzer, sources0, result>>

\* The filter entries the caller chooses from: a name and an argument.
FilterEntries ==
    {<<"country", Lit("UK")>>,
     <<"type", Lit("vehicles")>>,
     <<"type", Lit("vehicle")>>,
     <<"year", PyInt(1990)>>,
     <<"year", Lit("199x")>>,
     <<"year_range", Lit("1985-1995")>>,
     <<"manufacturer", Lit("ae")>>,
     <<"owner", Lit("uk")>>,
     <<"vehicle_type", Lit("vt1")>>,
     <<"organization_type", Lit("a")>>,
     <<"area_type", Lit("a")>>,
     <<"relationship", Lit("owner")>>,
     <<"keyword", Lit("tank")>>,
     <<"has_connection", Lit("v1")>>,
     <<"degree_min", PyInt(2)>>,
     <<"degree_max", Lit("1")>>,
     <<"equipment_category", Lit("vehicles")>>,
     <<"equipment_category", PyList(<<Lit("geographic"), Lit("administrative")>>)>>,
     <<"bogus", PyInt(1)>>}

\* The entries the caller adds to a filter map after its first one.
MoreEntries ==
    {<<"type", Lit("vehicles")>>,
     <<"year_range", Lit("1985-1995")>>,
     <<"owner", Lit("uk")>>,
     <<"has_connection", Lit("v1")>>,
     <<"degree_min", PyInt(2)>>,
     <<"bogus", PyInt(1)>>}

\* The largest number of entries of a filter map.
MaxFilters == 2

\* Filter maps of exactly n entries, in insertion order.
RECURSIVE MapsOf(_)
MapsOf(n) ==
    IF n = 0 THEN {<<>>}
    ELSE IF n = 1 THEN {<<e>> : e \in FilterEntries}
    ELSE {Append(m, e) : m \in MapsOf(n - 1), e \in MoreEntries}

\* The filter maps the caller chooses from: a dict has no two entries of one
\* name.
FilterMaps ==
    {m \in UNION {MapsOf(n) : n \in 0..MaxFilters} :
        \A i, j \in 1..Len(m) : i # j => m[i][1] # m[j][1]}

\* The conditions of an advanced filter the caller chooses from.
ConditionFilterMaps ==
    {<<>>,
     <<<<"type", Lit("vehicle")>>, <<"has_connection", Lit("v1")>>>>,
     <<<<"bogus", PyInt(1)>>, <<"degree_min", PyInt(1)>>>>}

Conditions ==
    {[filter |-> m] : m \in ConditionFilterMaps}
    \cup {[filter |-> m, not |-> TRUE] : m \in ConditionFilterMaps}
    \cup {[not |-> TRUE]}

\* The largest number of conditions of an advanced filter.
MaxConditions == 2

RECURSIVE ConditionSeqs(_)
ConditionSeqs(n) ==
    IF n = 0 THEN {<<>>}
    ELSE {Append(cs, c) : cs \in ConditionSeqs(n - 1), c \in Conditions}

\* The advanced filter configurations the caller chooses from: conditions
\* with a logic of AND, OR, an unknown word, or no logic key at all.
FilterConfigs ==
    {<<<<"logic", l>>, <<"conditions", cs>>>> :
        l \in {Lit("AND"), Lit("OR"), Lit("XOR")},
        cs \in UNION {ConditionSeqs(n) : n \in 0..MaxConditions}}
    \cup {<<<<"logic", Lit("OR")>>>>}
    \cup {<<<<"conditions", cs>>>> : cs \in ConditionSeqs(1)}
    \cup {<<<<"type", Lit("vehicles")>>, <<"conditions", cs>>>> : cs \in ConditionSeqs(1)}

\* What the caller keeps of a FilterSystem call.
CallRecord(op, arg, r) == [op |-> op, arg |-> arg, raised |-> r.raised, ret |-> r.ret]

\* FilterSystem.apply_filters on the graph under analysis
ApplyFiltersCall ==
    /\ graph.oid # 0
    /\ result.op = "none"
    /\ \E filters \in FilterMaps :
        result' = CallRecord("apply_filters", filters,
                             ApplyFilters(graph, filters, FreshOid))
    /\ graph' = FilterLeaves(graph)
    /\ UNCHANGED <<disk, loader, checked, analyzer, sources, sources0, combined, base, built, lastKey>>

\* FilterSystem.create_advanced_filter on the graph under analysis
AdvancedFilterCall ==
    /\ graph.oid # 0
    /\ result.op = "none"
    /\ \E filter_config \in FilterConfigs :
        result' = CallRecord("create_advanced_filter", filter_config,
                             CreateAdvancedFilter(graph, filter_config, FreshOid))
    /\ graph' = FilterLeaves(graph)
    /\ UNCHANGED <<disk, loader, checked, analyzer, sources, sources0, combined, base, built, lastKey>>

Next ==
    \/ Combine
    \/ \E k \in 1..MaxSources : BuildSource(k)
    \/ BuildCombined
    \/ BuildCombinedGraph

\* The builder's session.
Spec == Init /\ [][Next]_vars

\* The caller drops the graph the last FilterSystem call returned.
Discard ==
    /\ result.op # "none"
    /\ result' = NoResult
    /\ UNCHANGED <<disk, loader, checked, analyzer, sources, sources0, combined, graph, base, built, lastKey>>

NextFilter ==
    \/ BuildCombinedGraph
    \/ ApplyFiltersCall
    \/ AdvancedFilterCall
    \/ Discard

\* The filter system's session on a combined graph.
SpecFilter == Init /\ [][NextFilter]_vars

----------------------------------------------------------------------------
(* The session on one graph: a built one or one the caller made itself *)

\* A graph the caller made with add_node and add_edge: attributes per node
\* and attribute-less edges.
CallerGraph(nodes, links) ==
    [oid |-> 0, nodes |-> nodes, edges |-> [e \in links |-> NoDict], info |-> NoDict]

\* nx.Graph() left empty.
GraphEmpty == CallerGraph(NoDict, {})

\* Edges A-B and B-C between attribute-less nodes.
GraphPath ==
    CallerGraph([n \in {Lit("A"), Lit("B"), Lit("C")} |-> NoDict],
                {{Lit("A"), Lit("B")}, {Lit("B"), Lit("C")}})

\* A vehicle and a country, typed in the singular and unconnected.
GraphEquipment ==
    CallerGraph((Lit("v1") :> [type |-> Lit("vehicle"), label |-> Lit("T-72 tank")])
                @@ (Lit("c1") :> [type |-> Lit("country"), label |-> Lit("Lithuania")]),
                {})

\* Four fully described vehicles, each linked to each: more edges than nodes.
GraphDense ==
    CallerGraph([n \in {Lit("v1"), Lit("v2"), Lit("c1"), Lit("c2")} |->
                    [type |-> Lit("vehicle"), label |-> Lit("Tank"), year |-> PyInt(1990),
                     country |-> Lit("UK"), manufacturer |-> Lit("BAE"),
                     owner |-> Lit("UK Army"), vehicle_type |-> Lit("Command"),
                     data |-> PyDict([id |-> n, model |-> Lit("Tractor")])]],
                {{Lit("v1"), Lit("v2")}, {Lit("v1"), Lit("c1")}, {Lit("v1"), Lit("c2")},
                 {Lit("v2"), Lit("c1")}, {Lit("v2"), Lit("c2")}, {Lit("c1"), Lit("c2")}})

\* Attributes of kinds build_graph does not produce: a numeric label, a year
\* kept as text, a null owner, and a self-loop.
GraphMixed ==
    CallerGraph((Lit("c1") :> [type |-> Lit("country"), label |-> PyInt(7)])
                @@ (Lit("v2") :> [type |-> Lit("vehicle"), year |-> Lit("1990"),
                                  vehicle_type |-> Lit("Tank")])
                @@ (Lit("v1") :> [year |-> PyInt(1990), owner |-> PyNone]),
                {{Lit("v1")}, {Lit("v1"), Lit("v2")}})

\* Two units of no equipment type, unconnected: one a command post by its
\* vehicle_type, one a base by its label.
GraphUnits ==
    CallerGraph((Lit("u1") :> [type |-> Lit("unit"), vehicle_type |-> Lit("Command")])
                @@ (Lit("u2") :> [type |-> Lit("unit"), label |-> Lit("Naval base")]),
                {})

CallerGraphs == {GraphEmpty, GraphPath, GraphEquipment, GraphDense, GraphMixed, GraphUnits}

\* The single filters the caller tries on the graph: a name and an argument.
ProbeEntries ==
    {<<"degree_min", PyInt(2)>>,
     <<"degree_min", Lit("1")>>,
     <<"degree_min", Lit("abc")>>,
     <<"degree_max", PyInt(1)>>,
     <<"degree_max", Lit("2")>>,
     <<"degree_max", PyNone>>,
     <<"year", PyInt(1990)>>,
     <<"year", Lit("1990")>>,
     <<"year", Lit("199x")>>,
     <<"year", PyNone>>,
     <<"year", PyList(<<PyInt(1990)>>)>>,
     <<"year_range", Lit("1985-1995")>>,
     <<"year_range", Lit("1985")>>,
     <<"year_range", Lit("a-b")>>,
     <<"year_range", Lit("1985-1995-2000")>>,
     <<"year_range", PyInt(1990)>>,
     <<"year_range", PyNone>>,
     <<"year_range", PyList(<<PyInt(1985), PyInt(1995)>>)>>,
     <<"equipment_category", Lit("vehicles")>>,
     <<"equipment_category", Lit("Vehicles")>>,
     <<"equipment_category", PyList(<<Lit("geographic"), Lit("bogus")>>)>>,
     <<"equipment_category", PyList(<<Lit("vehicle"), Lit("administrative")>>)>>,
     <<"equipment_category", PyList(<<Lit("bogus"), Lit("x")>>)>>,
     <<"equipment_category", PyList(<<Lit("vehicles"), Lit("administrative")>>)>>,
     <<"equipment_category", PyList(<<Lit("geographic"), Lit("administrative")>>)>>,
     <<"has_connection", Lit("v1")>>,
     <<"has_connection", Lit("B")>>,
     <<"has_connection", Lit("x")>>}

\* The country lists the caller asks a comparison for.
CountryLists == {<<Lit("UK")>>, <<Lit("c1"), Lit("UK")>>}

\* GraphBuilder.build_graph on one of the caller's databases, no call result
\* being held.
BuildOne ==
    /\ result.op = "none"
    /\ \E k \in 1..MaxSources : BuildSource(k)

\* The caller takes a graph of its own making for analysis.
AdoptGraph ==
    /\ result.op = "none"
    /\ \E g \in CallerGraphs : graph' = [g EXCEPT !.oid = FreshOid]
    /\ base' = graph'
    /\ lastKey' = -1
    /\ UNCHANGED <<disk, loader, checked, analyzer, sources, sources0, combined, built, result>>

\* FilterSystem.apply_filters with a single filter on the graph under analysis
FilterProbeCall ==
    /\ graph.oid # 0
    /\ result.op = "none"
    /\ \E entry \in ProbeEntries :
        result' = CallRecord("apply_filters", <<entry>>,
                             ApplyFilters(graph, <<entry>>, FreshOid))
    /\ graph' = FilterLeaves(graph)
    /\ UNCHANGED <<disk, loader, checked, analyzer, sources, sources0, combined, base, built, lastKey>>

\* StatisticsGenerator._calculate_data_quality_score on the graph under analysis
QualityScoreCall ==
    /\ graph.oid # 0
    /\ result.op = "none"
    /\ result' = CallRecord("_calculate_data_quality_score", <<>>,
                            Returns(CalculateDataQualityScore(graph)))
    /\ UNCHANGED <<disk, loader, checked, analyzer, sources, sources0, combined, graph, base, built, lastKey>>

\* StatisticsGenerator.compare_countries on the graph under analysis
CompareCountriesCall ==
    /\ graph.oid # 0
    /\ result.op = "none"
    /\ \E countries \in CountryLists :
        result' = CallRecord("compare_countries", countries,
                             CompareCountries(graph, countries))
    /\ UNCHANGED <<disk, loader, checked, analyzer, sources, sources0, combined, graph, base, built, lastKey>>

\* An id that names no node of the session's graphs
AbsentId == Lit("x")

\* The ids the caller asks about: the nodes of the graph and one that is none
Endpoints(g) == NodeIds(g) \cup {AbsentId}

\* The largest max_paths and max_length the caller passes
MaxPaths == 3

MaxLength == 3

\* The id lists the caller asks a subgraph for
IdLists(g) ==
    {<<a>> : a \in Endpoints(g)} \cup {<<a, b>> : a \in Endpoints(g), b \in Endpoints(g)}

\* GraphBuilder.find_paths on the graph under analysis
FindPathsCall ==
    /\ graph.oid # 0
    /\ result.op = "none"
    /\ \E source \in Endpoints(graph), target \in Endpoints(graph),
          max_paths \in 0..MaxPaths, max_length \in {1, MaxLength} :
        \E outcome \in FindPaths(graph, source, target, max_paths, max_length) :
            result' = CallRecord("find_paths", <<source, target, max_paths, max_length>>,
                                 outcome)
    /\ UNCHANGED <<disk, loader, checked, analyzer, sources, sources0, combined, graph, base, built, lastKey>>

\* GraphBuilder.create_subgraph on the graph under analysis
CreateSubgraphCall ==
    /\ graph.oid # 0
    /\ result.op = "none"
    /\ \E entity_ids \in IdLists(graph), include_neighbors \in BOOLEAN,
          max_distance \in {1, 2} :
        result' = CallRecord("create_subgraph",
                             <<entity_ids, include_neighbors, max_distance>>,
                             Returns(CreateSubgraph(graph, entity_ids, include_neighbors,
                                                    max_distance, FreshOid)))
    /\ UNCHANGED <<disk, loader, checked, analyzer, sources, sources0, combined, graph, base, built, lastKey>>

\* GraphBuilder.analyze_connectivity on the graph under analysis
AnalyzeConnectivityCall ==
    /\ graph.oid # 0
    /\ result.op = "none"
    /\ result' = CallRecord("analyze_connectivity", <<>>, AnalyzeConnectivity(graph))
    /\ UNCHANGED <<disk, loader, checked, analyzer, sources, sources0, combined, graph, base, built, lastKey>>

\* StatisticsGenerator.generate_statistics on the graph under analysis
GenerateStatisticsCall ==
    /\ graph.oid # 0
    /\ result.op = "none"
    /\ result' = CallRecord("generate_statistics", <<>>, GenerateStatistics(graph))
    /\ UNCHANGED <<disk, loader, checked, analyzer, sources, sources0, combined, graph, base, built, lastKey>>

\* The caller drops what the last call returned.
Forget ==
    /\ result.op # "none"
    /\ result' = NoResult
    /\ UNCHANGED <<disk, loader, checked, analyzer, sources, sources0, combined, graph, base, built, lastKey>>

NextGraph ==
    \/ BuildOne
    \/ AdoptGraph
    \/ FilterProbeCall
    \/ QualityScoreCall
    \/ CompareCountriesCall
    \/ FindPathsCall
    \/ CreateSubgraphCall
    \/ AnalyzeConnectivityCall
    \/ GenerateStatisticsCall
    \/ Forget

\* The analyzer with a single database loaded.
InitGraph ==
    /\ Init
    /\ Len(sources) = 1

\* The session of filter and statistics calls on one graph.
SpecGraph == InitGraph /\ [][NextGraph]_vars

----------------------------------------------------------------------------
(* The session on the data files: writes, change checks, loads *)

\* The history of change checks after a call that checked the files in
\* `seen`: what they hold now, and what they held at their check before.
CheckedAfter(seen) ==
    [last |-> [f \in seen |-> ContentOf(disk[f])] @@ checked.last,
     prior |-> [f \in seen \cap DOMAIN checked.last |-> checked.last[f]]]

\* A file is written, by the suite or by another program: it holds one of
\* the JSON texts after, the same or another; st_mtime moves on or, within
\* the granularity of the clock, stays.
WriteFile ==
    /\ \E f \in FileNames, text \in DOMAIN FileTexts, mtime \in 0..MaxMtime :
        /\ mtime >= disk[f].mtime
        /\ disk' = [disk EXCEPT ![f] = DataFile(text, mtime)]
    /\ UNCHANGED <<sources, sources0, combined, graph, base, built, lastKey, result,
                   loader, checked, analyzer>>

\* A file is removed.
RemoveFile ==
    /\ \E f \in FileNames :
        /\ disk[f].exists
        /\ disk' = [disk EXCEPT ![f] = [exists |-> FALSE, text |-> 0, mtime |-> @.mtime]]
    /\ UNCHANGED <<sources, sources0, combined, graph, base, built, lastKey, result,
                   loader, checked, analyzer>>

\* DatabaseLoader._has_file_changed(file_path)
HasFileChangedCall ==
    /\ \E f \in FileNames :
        /\ loader' = HasFileChanged(loader, f, disk[f]).loader
        /\ checked' = CheckedAfter({f})
        /\ result' = CallRecord("_has_file_changed", <<f>>,
                                Returns(HasFileChanged(loader, f, disk[f]).ret))
    /\ UNCHANGED <<sources, sources0, combined, graph, base, built, lastKey, disk, analyzer>>

\* DatabaseLoader.load_database(file_path, force_reload)
LoadDatabaseCall ==
    /\ \E f \in FileNames, force_reload \in BOOLEAN :
        /\ loader' = LoadDatabase(loader, f, disk[f], force_reload).loader
        /\ checked' = CheckedAfter(IF disk[f].exists /\ ~force_reload THEN {f} ELSE {})
        /\ result' = CallRecord("load_database", <<f, force_reload>>,
                                LoadDatabase(loader, f, disk[f], force_reload))
    /\ UNCHANGED <<sources, sources0, combined, graph, base, built, lastKey, disk, analyzer>>

\* DatabaseLoader.clear_cache()
ClearCacheCall ==
    /\ loader' = ClearCache(loader)
    /\ checked' = NoChecks
    /\ result' = CallRecord("clear_cache", <<>>, Returns(NoDict))
    /\ UNCHANGED <<sources, sources0, combined, graph, base, built, lastKey, disk, analyzer>>

NextLoader ==
    \/ WriteFile
    \/ RemoveFile
    \/ HasFileChangedCall
    \/ LoadDatabaseCall
    \/ ClearCacheCall

\* A new DatabaseLoader on the data directory, no graph session going on.
InitLoader ==
    /\ sources = <<>>
    /\ sources0 = <<>>
    /\ combined = NoDict
    /\ graph = NoGraph
    /\ base = NoGraph
    /\ built = NoDict
    /\ lastKey = -1
    /\ result = NoResult
    /\ disk = DataDirectory
    /\ loader = NewLoader
    /\ checked = NoChecks
    /\ analyzer = NewAnalyzer

\* The session of a DatabaseLoader and the files it watches.
SpecLoader == InitLoader /\ [][NextLoader]_vars

----------------------------------------------------------------------------
(* The session of one MilitaryDatabaseAnalyzer *)

\* The databases arguments the caller passes
DatabaseArgs ==
    {NoneArg, NamesArg(<<"uk">>), NamesArg(<<"usa", "uk">>)}

\* MilitaryDatabaseAnalyzer.load_database(database_name): ValueError for a
\* name that is not configured, else the loader's load_database
AnalyzerLoadDatabase ==
    /\ \E name \in DOMAIN DatabaseConfigs \cup {"all"} :
        IF name \notin DOMAIN DatabaseConfigs
        THEN /\ result' = CallRecord("load_database", <<name>>,
                                     [raised |-> TRUE, ret |-> NoDict])
             /\ UNCHANGED <<loader, checked, analyzer>>
        ELSE /\ loader' = LoadDatabase(loader, DatabaseConfigs[name],
                                       disk[DatabaseConfigs[name]], FALSE).loader
             /\ checked' = CheckedAfter(IF disk[DatabaseConfigs[name]].exists
                                        THEN {DatabaseConfigs[name]} ELSE {})
             /\ result' = CallRecord("load_database", <<name>>,
                                     LoadDatabase(loader, DatabaseConfigs[name],
                                                  disk[DatabaseConfigs[name]], FALSE))
             /\ analyzer' = IF result'.raised THEN analyzer
                            ELSE [analyzer EXCEPT
                                    !.databases = DatabasesPut(@, name, result'.ret)]
    /\ UNCHANGED <<sources, sources0, combined, graph, base, built, lastKey, disk>>

\* MilitaryDatabaseAnalyzer.build_combined_graph(databases)
AnalyzerBuildCombinedGraph ==
    /\ \E databases \in DatabaseArgs :
        /\ analyzer' = BuildCombinedGraphOf(analyzer, databases)
        /\ result' = CallRecord("build_combined_graph", <<databases>>,
                                Returns(analyzer'.combined_graph))
    /\ UNCHANGED <<sources, sources0, combined, graph, base, built, lastKey, disk,
                   loader, checked>>

\* MilitaryDatabaseAnalyzer.compare_countries(databases, countries); the
\* figure and the files written are left out
AnalyzerCompareCountries ==
    /\ \E databases \in DatabaseArgs, countries \in {<<Lit("UK")>>} :
        /\ analyzer' = EnsureCombinedGraph(analyzer, databases)
        /\ result' = CallRecord("compare_countries", <<databases, countries>>,
                                CompareCountries(analyzer'.combined_graph, countries))
    /\ UNCHANGED <<sources, sources0, combined, graph, base, built, lastKey, disk,
                   loader, checked>>

\* MilitaryDatabaseAnalyzer.generate_comprehensive_report(databases); the
\* dashboard and the files written are left out
AnalyzerReport ==
    /\ \E databases \in DatabaseArgs :
        /\ analyzer' = EnsureCombinedGraph(analyzer, databases)
        /\ result' = CallRecord("generate_comprehensive_report", <<databases>>,
                                GenerateComprehensiveReport(
                                    analyzer'.combined_graph, analyzer.databases,
                                    NamesOf(analyzer, databases)))
    /\ UNCHANGED <<sources, sources0, combined, graph, base, built, lastKey, disk,
                   loader, checked>>

NextAnalyzer ==
    \/ AnalyzerLoadDatabase
    \/ AnalyzerBuildCombinedGraph
    \/ AnalyzerCompareCountries
    \/ AnalyzerReport

\* A new analyzer on the data directory, whose second file may be no JSON.
InitAnalyzer ==
    /\ sources = <<>>
    /\ sources0 = <<>>
    /\ combined = NoDict
    /\ graph = NoGraph
    /\ base = NoGraph
    /\ built = NoDict
    /\ lastKey = -1
    /\ result = NoResult
    /\ disk \in {DataDirectory,
                 [DataDirectory EXCEPT ![DatabaseConfigs.usa] = DataFile(0, 0)]}
    /\ loader = NewLoader
    /\ checked = NoChecks
    /\ analyzer = NewAnalyzer

\* The session of analyzer calls on the data directory as it was found.
SpecAnalyzer == InitAnalyzer /\ [][NextAnalyzer]_vars

----------------------------------------------------------------------------
(* Properties of FilterSystem.apply_filters and create_advanced_filter *)

\* What apply_filters returns for each entry of the last filter map alone.
SingleResults ==
    [i \in 1..Len(result.arg) |-> ApplyFilters(graph, <<result.arg[i]>>, MaxObjects)]

\* The nodes of the graph that each of the given results has.
CommonNodes(results) ==
    {n \in NodeIds(graph) : \A i \in DOMAIN results : n \in NodeIds(results[i].ret)}

\* C1: AND semantics of apply_filters.  For a filter map of two (or more)
\* entries the call returns exactly the nodes that each entry returns when
\* it is applied alone to the same graph; it raises exactly when one of the
\* entries raises on its own.
ApplyFiltersAndSemantics ==
    (result.op = "apply_filters" /\ Len(result.arg) >= 2) =>
        LET single == SingleResults
        IN  /\ result.raised = (\E i \in DOMAIN single : single[i].raised)
            /\ ~result.raised => NodeIds(result.ret) = CommonNodes(single)

\* A call with two entries that keep different node sets, the result being
\* non-empty and smaller than either.
ApplyFiltersAndWitness ==
    /\ result.op = "apply_filters"
    /\ Len(result.arg) = 2
    /\ ~result.raised
    /\ NodeIds(result.ret) # {}
    /\ NodeIds(result.ret) # NodeIds(SingleResults[1].ret)
    /\ NodeIds(result.ret) # NodeIds(SingleResults[2].ret)

\* The entries of a filter map whose name is registered.
KnownEntries(filters) == SelectSeq(filters, LAMBDA e : e[1] \in AvailableFilters)

\* C2: an unknown filter is a no-op.  A filter map of unknown names alone
\* returns every node of the graph and raises nothing; an unknown name among
\* known filters leaves the outcome what the known filters alone give.
UnknownFilterNoOp ==
    (/\ result.op = "apply_filters"
     /\ \E i \in 1..Len(result.arg) : result.arg[i][1] \notin AvailableFilters) =>
        IF KnownEntries(result.arg) = <<>>
        THEN ~result.raised /\ NodeIds(result.ret) = NodeIds(graph)
        ELSE /\ result.raised =
                    ApplyFilters(graph, KnownEntries(result.arg), MaxObjects).raised
             /\ ~result.raised =>
                    NodeIds(result.ret) =
                    NodeIds(ApplyFilters(graph, KnownEntries(result.arg), MaxObjects).ret)

\* An unknown name next to a known filter that keeps some nodes and drops
\* others.
UnknownFilterWitness ==
    /\ result.op = "apply_filters"
    /\ Len(result.arg) = 2
    /\ Len(KnownEntries(result.arg)) = 1
    /\ ~result.raised
    /\ NodeIds(result.ret) # {}
    /\ NodeIds(result.ret) # NodeIds(graph)

\* C3: filtering never mutates the base graph.  Whatever apply_filters and
\* create_advanced_filter calls were made on it, the graph is what the build
\* left (nodes, edges, every attribute), and the graph a call returns is
\* another object.
FilteringLeavesBaseGraph ==
    /\ graph = base
    /\ (result.op # "none" /\ ~result.raised) => result.ret.oid # graph.oid

\* A call with the empty filter map on a graph with edges, and an advanced
\* filter matching nothing, have returned.
FilteringLeavesBaseWitness ==
    /\ DOMAIN graph.edges # {}
    /\ ~result.raised
    /\ \/ result.op = "apply_filters" /\ result.arg = <<>>
       \/ result.op = "create_advanced_filter" /\ NodeIds(result.ret) = {}

\* C4: induced-subgraph semantics.  The graph apply_filters returns has
\* exactly the edges of the base graph whose two endpoints it kept, each with
\* the relationship (and weight) it has in the base graph.
InducedSubgraph ==
    (result.op = "apply_filters" /\ ~result.raised) =>
        /\ NodeIds(result.ret) \subseteq NodeIds(graph)
        /\ DOMAIN result.ret.edges =
               {e \in DOMAIN graph.edges : e \subseteq NodeIds(result.ret)}
        /\ \A e \in DOMAIN result.ret.edges : result.ret.edges[e] = graph.edges[e]

\* A result that keeps one edge of the base graph and loses another.
InducedSubgraphWitness ==
    /\ result.op = "apply_filters"
    /\ ~result.raised
    /\ DOMAIN result.ret.edges # {}
    /\ DOMAIN result.ret.edges # DOMAIN graph.edges

----------------------------------------------------------------------------
(* Properties of GraphBuilder.combine_databases and build_graph *)

\* The k-th source's collection of an entity type, empty when it has none.
SourceList(d, t) == IF t \in DOMAIN sources[d].db THEN sources[d].db[t] ELSE <<>>

\* The places <<source, position>> where id x occurs in collection t.
Occurrences(t, x) ==
    {p \in UNION {{<<d, i>> : i \in 1..Len(SourceList(d, t))} : d \in 1..Len(sources)} :
        Get(SourceList(p[1], t)[p[2]], "id", PyNone) = x}

\* The earliest of them: first source in caller order, first position in it.
FirstOccurrence(t, x) ==
    CHOOSE p \in Occurrences(t, x) :
        \A q \in Occurrences(t, x) : p[1] < q[1] \/ (p[1] = q[1] /\ p[2] <= q[2])

\* The non-empty ids of collection t over all sources.
SourceIds(t) ==
    {x \in UNION {{Get(SourceList(d, t)[i], "id", PyNone) : i \in 1..Len(SourceList(d, t))} :
                    d \in 1..Len(sources)} : Truthy(x)}

\* The sources that hold an entity with id x in some collection.
SourcesWith(x) == {d \in 1..Len(sources) : \E t \in TypeSet : Occurrences(t, x) # {} /\
                                              \E p \in Occurrences(t, x) : p[1] = d}

\* C5: dedup-on-merge.  When two sources hold an entity with the same id, in
\* the same or in different collections, the graph built from the combined
\* database has the one node of that id, whose payload is tagged with the
\* name of the first of these sources.
DedupOnMerge ==
    lastKey = 0 =>
        \A x \in UNION {SourceIds(t) : t \in TypeSet} :
            Cardinality(SourcesWith(x)) >= 2 =>
                /\ x \in NodeIds(graph)
                /\ graph.nodes[x]["data"].v["_source_database"] =
                       Lit(sources[Least(SourcesWith(x))].name)

\* C6: combine_databases keeps the first occurrence per entity type.  Every
\* merged collection has pairwise distinct ids, which are the non-empty ids
\* the sources have in that collection, and each record is the earliest
\* source record of its id with the _source_database tag of that source.
CombineKeepsFirst ==
    combined # NoDict =>
        \A t \in TypeSet :
            /\ \A i, j \in 1..Len(combined[t]) :
                    i # j => combined[t][i]["id"] # combined[t][j]["id"]
            /\ {combined[t][i]["id"] : i \in 1..Len(combined[t])} = SourceIds(t)
            /\ \A i \in 1..Len(combined[t]) :
                    combined[t][i] =
                        ("_source_database" :>
                            Lit(sources[FirstOccurrence(t, combined[t][i]["id"])[1]].name))
                        @@ SourceList(FirstOccurrence(t, combined[t][i]["id"])[1], t)
                               [FirstOccurrence(t, combined[t][i]["id"])[2]]

\* A merge in which a later source repeats an id of an earlier one with
\* another record, in the same collection.
CombineKeepsFirstWitness ==
    /\ combined # NoDict
    /\ \E t \in TypeSet : \E x \in SourceIds(t) :
            \E p, q \in Occurrences(t, x) :
                /\ p[1] < q[1]
                /\ SourceList(p[1], t)[p[2]] # SourceList(q[1], t)[q[2]]

\* Two records agree on every key but the _source_database tag.
SameButTag(e, e0) ==
    \A key \in (DOMAIN e \cup DOMAIN e0) \ {"_source_database"} :
        key \in DOMAIN e /\ key \in DOMAIN e0 /\ e[key] = e0[key]

\* C7: source records are not mutated.  After any combine_databases and
\* build_graph calls the caller's databases have the collections, lengths and
\* order they were handed over with, and every record has the keys and values
\* it had, a _source_database tag at most apart.
SourceRecordsNotMutated ==
    /\ Len(sources) = Len(sources0)
    /\ \A d \in 1..Len(sources) :
        /\ sources[d].name = sources0[d].name
        /\ DOMAIN sources[d].db = DOMAIN sources0[d].db
        /\ \A t \in DOMAIN sources[d].db :
            /\ Len(sources[d].db[t]) = Len(sources0[d].db[t])
            /\ \A i \in 1..Len(sources[d].db[t]) :
                    SameButTag(sources[d].db[t][i], sources0[d].db[t][i])

\* The sources have been combined and one of them has been built.
SourceRecordsWitness ==
    /\ combined # NoDict
    /\ lastKey >= 1
    /\ NodeIds(graph) # {}

BuiltDatabase == IF lastKey = 0 THEN combined ELSE sources[lastKey].db

\* The records of the built database that have an id, in build order.
BuiltEntities ==
    SelectSeq([i \in 1..Len(DatabaseEntities(BuiltDatabase)) |->
                    DatabaseEntities(BuiltDatabase)[i][2]],
              LAMBDA e : Truthy(Get(e, "id", PyNone)))

\* The record build_graph registers for each id: the last one with that id.
Registry ==
    LET entities == BuiltEntities
    IN  [x \in {entities[i]["id"] : i \in 1..Len(entities)} |->
            entities[CHOOSE i \in 1..Len(entities) :
                        /\ entities[i]["id"] = x
                        /\ \A j \in 1..Len(entities) : entities[j]["id"] = x => j <= i]]

\* The field names of the references the record e makes to the id y.
RefsTo(e, y) ==
    LET refs == EntityReferences(e)
    IN  {refs[i][1] : i \in {j \in 1..Len(refs) : refs[j][2] = y}}

\* The direct reference fields of a record that name another node of the graph.
ResolvedFields(e) ==
    {f \in {RefFields[i] : i \in 1..Len(RefFields)} :
        /\ f \in DOMAIN e
        /\ Truthy(e[f])
        /\ e[f] \in NodeIds(graph)
        /\ e[f] # e["id"]}

\* The end-to-end scenario: 3 nodes, 2 edges, v1-c1 owner, v1-vt1 vehicleType.
ScenarioGraph ==
    (lastKey >= 1 /\ sources[lastKey].db = DbScenario) =>
        /\ NodeIds(graph) = {Lit("c1"), Lit("v1"), Lit("vt1")}
        /\ DOMAIN graph.edges = {{Lit("v1"), Lit("c1")}, {Lit("v1"), Lit("vt1")}}
        /\ graph.edges[{Lit("v1"), Lit("c1")}]["relationship"] = Lit("owner")
        /\ graph.edges[{Lit("v1"), Lit("vt1")}]["relationship"] = Lit("vehicleType")

\* C9 as stated: every record with a direct reference field naming another
\* built node has an edge to it whose relationship is that field's name and
\* whose weight is 1.0; the scenario graph is as described.
DirectRefsLabelledByField ==
    lastKey >= 0 =>
        /\ \A i \in 1..Len(BuiltEntities) : \A f \in ResolvedFields(BuiltEntities[i]) :
                /\ {BuiltEntities[i]["id"], BuiltEntities[i][f]} \in DOMAIN graph.edges
                /\ graph.edges[{BuiltEntities[i]["id"], BuiltEntities[i][f]}]
                       = [relationship |-> Lit(f), weight |-> PyFloat1]
        /\ ScenarioGraph

\* C9: resolved direct references become labelled edges.  Every record that
\* build_graph registers for its id (the last one of that id) and that names
\* another built node in a direct reference field has an edge to it of weight
\* 1.0, whose relationship is the field name of a reference one of the two
\* registered records makes to the other: the field itself when it is the
\* only such reference.  The scenario graph is as described.
DirectRefsBecomeEdges ==
    lastKey >= 0 =>
        /\ LET registered == Registry
           IN  \A x \in DOMAIN registered : \A f \in ResolvedFields(registered[x]) :
                /\ {x, registered[x][f]} \in DOMAIN graph.edges
                /\ graph.edges[{x, registered[x][f]}]["weight"] = PyFloat1
                /\ graph.edges[{x, registered[x][f]}]["relationship"] \in
                        {Lit(l) : l \in RefsTo(registered[x], registered[x][f])
                                        \cup RefsTo(registered[registered[x][f]], x)}
        /\ ScenarioGraph

\* A registered record refers to one node by two fields: its edge carries the
\* later field's name, the owner reference is resolved all the same.
DirectRefsWitness ==
    /\ lastKey >= 0
    /\ LET registered == Registry
       IN  \E x \in DOMAIN registered :
            /\ "owner" \in ResolvedFields(registered[x])
            /\ "country" \in ResolvedFields(registered[x])
            /\ registered[x]["owner"] = registered[x]["country"]
            /\ graph.edges[{x, registered[x]["owner"]}]["relationship"] = Lit("country")

\* The ids of the vehicles collection the graph under analysis was built from.
VehicleIds == {combined["vehicles"][i]["id"] : i \in 1..Len(combined["vehicles"])}

\* C10: the type filter on a built graph.  apply_filters with type "vehicle"
\* returns exactly the nodes built from the vehicles collection; for the
\* scenario database that is the node v1.
TypeFilterVehicle ==
    (result.op = "apply_filters" /\ result.arg = <<<<"type", Lit("vehicle")>>>>) =>
        /\ ~result.raised
        /\ NodeIds(result.ret) = VehicleIds
        /\ (Len(sources) = 1 /\ sources[1].db = DbScenario) =>
                NodeIds(result.ret) = {Lit("v1")}

----------------------------------------------------------------------------
(* Properties of StatisticsGenerator *)

\* C11: on the graph built from the end-to-end scenario, compare_countries
\* for the token "UK" counts v1 as an asset of that country: total_assets
\* is at least one and the vehicles count is 1.
ScenarioCountsOwnedAssets ==
    (/\ result.op = "compare_countries"
     /\ lastKey = 1
     /\ sources0[1].db = DbScenario) =>
        /\ ~result.raised
        /\ result.ret.countries[Lit("UK")].total_assets >= 1
        /\ result.ret.countries[Lit("UK")].vehicles = 1

----------------------------------------------------------------------------
(* Properties of GraphBuilder.build_graph: unresolved and self references *)

\* The field names under which _add_relationships reports nested references.
NestedFields == {"temporal_location", "state_location", "state_organization"}

\* The <<field, target>> references of the registered records whose target
\* is the id of no record of the built database.
DanglingRefs ==
    LET registry == Registry
    IN  UNION {{p \in {EntityReferences(registry[x])[i] :
                            i \in 1..Len(EntityReferences(registry[x]))} :
                    p[2] \notin DOMAIN registry} : x \in DOMAIN registry}

\* C12: a reference whose target is the id of no input entity is dropped
\* silently: the build completes, every entity with an id has its node, no
\* node stands for a missing id, no edge leads to one, and so every edge
\* endpoint of a built graph is the id of an input entity.
DanglingRefsDropped ==
    lastKey >= 0 =>
        LET registry == Registry
        IN  /\ graph.oid # 0
            /\ NodeIds(graph) = DOMAIN registry
            /\ \A i \in 1..Len(BuiltEntities) : BuiltEntities[i]["id"] \in NodeIds(graph)
            /\ \A e \in DOMAIN graph.edges : e \subseteq DOMAIN registry
            /\ \A x \in DOMAIN registry :
                \A i \in 1..Len(EntityReferences(registry[x])) :
                    EntityReferences(registry[x])[i][2] \notin DOMAIN registry =>
                        /\ EntityReferences(registry[x])[i][2] \notin NodeIds(graph)
                        /\ {x, EntityReferences(registry[x])[i][2]} \notin DOMAIN graph.edges

\* A graph built from records with a direct, a list and a nested reference
\* that no record resolves.
DanglingRefsWitness ==
    /\ lastKey >= 0
    /\ graph.oid # 0
    /\ \E p \in DanglingRefs : p[1] \in {RefFields[i] : i \in 1..Len(RefFields)}
    /\ \E p \in DanglingRefs : p[1] \in {ListFields[i] : i \in 1..Len(ListFields)}
    /\ \E p \in DanglingRefs : p[1] \in NestedFields

\* The fields by which the registered record of x refers to x itself.
SelfRefFields(x) == RefsTo(Registry[x], x)

\* C13: no edge of a built graph connects a node to itself, even when a
\* record names its own id in a direct, a list or a nested reference.
NoSelfLoops ==
    lastKey >= 0 => \A e \in DOMAIN graph.edges : Cardinality(e) = 2

\* A graph built from a record that names itself directly, in a list and
\* in a nested part.
NoSelfLoopsWitness ==
    /\ lastKey >= 0
    /\ \E x \in DOMAIN Registry :
        /\ SelfRefFields(x) \cap {RefFields[i] : i \in 1..Len(RefFields)} # {}
        /\ SelfRefFields(x) \cap {ListFields[i] : i \in 1..Len(ListFields)} # {}
        /\ SelfRefFields(x) \cap NestedFields # {}

\* C14: the data quality score q of every graph satisfies 0.0 <= q <= 1.0,
\* and it is 0.0 for the graph without nodes.
QualityScoreBounded ==
    result.op = "_calculate_data_quality_score" =>
        /\ ~result.raised
        /\ result.ret.den > 0
        /\ 0 <= result.ret.num
        /\ result.ret.num <= result.ret.den
        /\ NodeIds(graph) = {} => result.ret.num = 0

\* The score of a graph with more edges than nodes, whose weighted average
\* exceeds one and is cut to 1.0.
QualityScoreWitness ==
    /\ result.op = "_calculate_data_quality_score"
    /\ Cardinality(DOMAIN graph.edges) > Cardinality(NodeIds(graph))
    /\ ~FracLeq(WeightedQuality(graph), Frac(1, 1))
    /\ result.ret = Frac(1, 1)

----------------------------------------------------------------------------
(* Properties of the single filters *)

\* The last call was apply_filters with the one filter of the given name.
Probed(name) ==
    /\ result.op = "apply_filters"
    /\ Len(result.arg) = 1
    /\ result.arg[1][1] = name

\* The number of edge ends at a node: its other neighbours, and two for a
\* self-loop.
EdgeEnds(g, n) ==
    Cardinality({m \in NodeIds(g) \ {n} : {n, m} \in DOMAIN g.edges})
    + (IF {n} \in DOMAIN g.edges THEN 2 ELSE 0)

\* The bound a degree argument of the session stands for; none for a
\* non-numeric one.
DegreeBound(x) ==
    CASE x = PyInt(1) \/ x = Lit("1") -> <<1>>
      [] x = PyInt(2) \/ x = Lit("2") -> <<2>>
      [] OTHER -> <<>>

\* C15: degree_min = k returns exactly the nodes of degree >= k and
\* degree_max = k exactly those of degree <= k, degrees taken in the graph
\* being filtered; a non-numeric argument yields the empty set without
\* raising.  On edges A-B, B-C: degree_min = 2 gives {B} and degree_max = 1
\* gives {A, C}.
DegreeFiltersInclusive ==
    /\ Probed("degree_min") =>
        /\ ~result.raised
        /\ NodeIds(result.ret) =
            {n \in NodeIds(graph) :
                /\ DegreeBound(result.arg[1][2]) # <<>>
                /\ EdgeEnds(graph, n) >= DegreeBound(result.arg[1][2])[1]}
        /\ (graph.edges = GraphPath.edges /\ result.arg[1][2] = PyInt(2)) =>
                NodeIds(result.ret) = {Lit("B")}
    /\ Probed("degree_max") =>
        /\ ~result.raised
        /\ NodeIds(result.ret) =
            {n \in NodeIds(graph) :
                /\ DegreeBound(result.arg[1][2]) # <<>>
                /\ EdgeEnds(graph, n) <= DegreeBound(result.arg[1][2])[1]}
        /\ (graph.edges = GraphPath.edges /\ result.arg[1][2] = PyInt(1)) =>
                NodeIds(result.ret) = {Lit("A"), Lit("C")}

\* degree_min = 2 on the path A-B-C, whose middle node has degree exactly 2.
DegreeFiltersWitness ==
    /\ Probed("degree_min")
    /\ result.arg[1][2] = PyInt(2)
    /\ graph.nodes = GraphPath.nodes
    /\ graph.edges = GraphPath.edges
    /\ NodeIds(result.ret) = {Lit("B")}

\* The year and year_range arguments of the session that are well formed.
WellFormedYearArg(name, x) ==
    IF name = "year" THEN x \in {PyInt(1990), Lit("1990")}
    ELSE x = Lit("1985-1995")

\* C16: the year and year_range filters return a node set without raising
\* for every argument value and every graph whose year values are
\* integers, strings or absent, and a malformed argument yields the empty
\* set.
YearFiltersNeverRaise ==
    (Probed("year") \/ Probed("year_range")) =>
        /\ ~result.raised
        /\ ~WellFormedYearArg(result.arg[1][1], result.arg[1][2]) =>
                NodeIds(result.ret) = {}

----------------------------------------------------------------------------
(* Properties of FilterSystem.create_advanced_filter *)

\* The last call was create_advanced_filter with a logic key and the given
\* logic word.
Advanced(logic) ==
    /\ result.op = "create_advanced_filter"
    /\ ItemGet(result.arg, "logic", PyNone) = logic

\* The conditions of the last advanced filter call.
CallConditions == ItemGet(result.arg, "conditions", <<>>)

\* C17: the node set a condition contributes before negation is the node
\* set of apply_filters(g, condition.filter), for every inner filter map.
\* Seen through a lone condition without not under logic AND, whose set is
\* the result.
ConditionUsesAndSemantics ==
    (/\ Advanced(Lit("AND"))
     /\ Len(CallConditions) = 1
     /\ DOMAIN CallConditions[1] = {"filter"}) =>
        LET applied == ApplyFilters(graph, CallConditions[1]["filter"], 0)
        IN  /\ result.raised = applied.raised
            /\ ~result.raised => NodeIds(result.ret) = NodeIds(applied.ret)

\* The configuration with its logic set to AND: the entry replaced, or
\* added when there is none.
WithLogicAnd(filter_config) ==
    IF \E i \in 1..Len(filter_config) : filter_config[i][1] = "logic"
    THEN [i \in 1..Len(filter_config) |->
            IF filter_config[i][1] = "logic" THEN <<"logic", Lit("AND")>>
            ELSE filter_config[i]]
    ELSE Append(filter_config, <<"logic", Lit("AND")>>)

\* C18: create_advanced_filter with a conditions list and a logic that is
\* absent or neither AND nor OR returns the node set of the same
\* configuration with logic = AND.
AdvancedDefaultsToAnd ==
    (/\ result.op = "create_advanced_filter"
     /\ CallConditions # <<>>
     /\ ItemGet(result.arg, "logic", PyNone) \notin {Lit("AND"), Lit("OR")}) =>
        LET anded == CreateAdvancedFilter(graph, WithLogicAnd(result.arg), 0)
        IN  /\ result.raised = anded.raised
            /\ ~result.raised => NodeIds(result.ret) = NodeIds(anded.ret)

\* The positions of the conditions that have a 'filter' key.
FilterConditions == {i \in 1..Len(CallConditions) : "filter" \in DOMAIN CallConditions[i]}

\* What each such condition contributes: the nodes its filter map matched,
\* or the rest of the graph's nodes when its not is true.
Contributions ==
    [i \in FilterConditions |->
        IF Get(CallConditions[i], "not", FALSE)
        THEN NodeIds(graph)
             \ ConditionLoop(graph, CallConditions[i]["filter"], 1, Matched({})).nodes
        ELSE ConditionLoop(graph, CallConditions[i]["filter"], 1, Matched({})).nodes]

\* The graph h is the subgraph of g induced on the node set.
InducedOn(g, h, nodes) ==
    /\ NodeIds(h) = nodes
    /\ \A n \in nodes : h.nodes[n] = g.nodes[n]
    /\ DOMAIN h.edges = {e \in DOMAIN g.edges : e \subseteq nodes}
    /\ \A e \in DOMAIN h.edges : h.edges[e] = g.edges[e]

\* C19: with logic OR the result is the union, with logic AND the
\* intersection, of the sets the conditions contribute, a condition with
\* not = true contributing the complement of its matched set in the node
\* set of g; the result is the subgraph of g induced on that set.
AdvancedComposition ==
    (result.op = "create_advanced_filter" /\ FilterConditions # {}) =>
        LET sets == Contributions
        IN  /\ Advanced(Lit("OR")) =>
                /\ ~result.raised
                /\ InducedOn(graph, result.ret,
                             {n \in NodeIds(graph) : \E i \in DOMAIN sets : n \in sets[i]})
            /\ Advanced(Lit("AND")) =>
                /\ ~result.raised
                /\ InducedOn(graph, result.ret,
                             {n \in NodeIds(graph) : \A i \in DOMAIN sets : n \in sets[i]})

\* Two conditions, one of them negated, that differ on the graph: under OR
\* some node is kept that AND would drop.
AdvancedCompositionWitness ==
    /\ Advanced(Lit("OR"))
    /\ Cardinality(FilterConditions) = 2
    /\ \E i \in FilterConditions : Get(CallConditions[i], "not", FALSE)
    /\ \E n \in NodeIds(result.ret) : \E i \in FilterConditions : n \notin Contributions[i]
    /\ DOMAIN result.ret.edges # {}
    /\ NodeIds(result.ret) # NodeIds(graph)

----------------------------------------------------------------------------
(* Properties of the equipment_category filter *)

\* The categories an equipment_category argument of the session requests.
Requested(x) == IF IsStr(x) THEN {x} ELSE {x.v[i] : i \in 1..Len(x.v)}

\* The lowered keywords of the requested categories the table knows.
RequestedKeywords(categories) ==
    {Lower(Chars(k)) : k \in UNION {EquipmentCategories[c] :
                            c \in {d \in DOMAIN EquipmentCategories : Lit(d) \in categories}}}

\* The lowered text of a field, when the field holds text.
TextOf(d, key) == IF key \in DOMAIN d /\ IsStr(d[key]) THEN {Lower(d[key].v)} ELSE {}

\* The lowered names[].value texts of an entity record.
NameTexts(entity_data) ==
    IF "names" \in DOMAIN entity_data /\ IsList(entity_data["names"])
    THEN UNION {IF IsDict(entity_data["names"].v[i])
                THEN TextOf(entity_data["names"].v[i].v, "value") ELSE {} :
                    i \in 1..Len(entity_data["names"].v)}
    ELSE {}

\* The texts of a node the filter searches for the requested categories,
\* vehicle_type being searched when one of vehicle_words was requested.
SearchedTexts(data, categories, vehicle_words) ==
    TextOf(data, "type")
    \cup (IF categories \cap vehicle_words # {} THEN TextOf(data, "vehicle_type") ELSE {})
    \cup (IF Lit("administrative") \in categories
          THEN TextOf(data, "organization_type") ELSE {})
    \cup (IF Lit("geographic") \in categories THEN TextOf(data, "area_type") ELSE {})
    \cup TextOf(data, "label")
    \cup NameTexts(EntityData(data))
    \cup UNION {TextOf(EntityData(data), f) :
                    f \in {"description", "title", "model", "make", "classification"}}

\* The nodes with a searched text that contains a requested keyword.
CategoryNodes(g, categories, vehicle_words) ==
    {n \in NodeIds(g) :
        \E k \in RequestedKeywords(categories) :
            \E t \in SearchedTexts(g.nodes[n], categories, vehicle_words) : IsSubstr(k, t)}

\* Every attribute and record field of the graph's nodes holds text.
AllText(g) ==
    \A n \in NodeIds(g) :
        /\ \A a \in DOMAIN g.nodes[n] \ {"data"} : IsStr(g.nodes[n][a])
        /\ \A f \in DOMAIN EntityData(g.nodes[n]) \ {"names"} :
                IsStr(EntityData(g.nodes[n])[f])

----------------------------------------------------------------------------
(* Properties of subgraphs and paths *)

\* The last call was the GraphBuilder method of the given name.
Called(op) == result.op = op

\* The nodes joined to n by an edge of the graph, n apart
LinkedTo(g, n) == {m \in NodeIds(g) : m # n /\ {n, m} \in DOMAIN g.edges}

\* The nodes a walk from n can end in
RECURSIVE ComponentOf(_, _)
ComponentOf(g, reached) ==
    IF \A n \in reached : LinkedTo(g, n) \subseteq reached THEN reached
    ELSE ComponentOf(g, reached \cup UNION {LinkedTo(g, n) : n \in reached})

\* C21: an absent target yields an empty result and no error.  has_connection
\* with an id that is no node returns no node, and with a node returns the
\* node and its neighbours; find_paths with an endpoint that is no node, or
\* with no path between the endpoints, returns the empty list; create_subgraph
\* returns nodes of the graph only, the requested ones when no neighbours are
\* asked for.
AbsentTargetIsEmpty ==
    /\ Probed("has_connection") =>
        /\ ~result.raised
        /\ NodeIds(result.ret) =
            IF result.arg[1][2] \in NodeIds(graph)
            THEN {result.arg[1][2]} \cup LinkedTo(graph, result.arg[1][2])
            ELSE {}
    /\ Called("find_paths") =>
        /\ ~result.raised
        /\ (result.arg[1] \notin NodeIds(graph) \/ result.arg[2] \notin NodeIds(graph)
                \/ result.arg[2] \notin ComponentOf(graph, {result.arg[1]}))
            => result.ret = <<>>
    /\ Called("create_subgraph") =>
        /\ ~result.raised
        /\ NodeIds(result.ret) \subseteq NodeIds(graph)
        /\ Range(result.arg[1]) \cap NodeIds(graph) \subseteq NodeIds(result.ret)
        /\ ~result.arg[2] => NodeIds(result.ret) = Range(result.arg[1]) \cap NodeIds(graph)

\* find_paths between two nodes of the graph that no path joins, asked for at
\* least one path.
AbsentTargetWitness ==
    /\ Called("find_paths")
    /\ {result.arg[1], result.arg[2]} \subseteq NodeIds(graph)
    /\ result.arg[1] # result.arg[2]
    /\ result.arg[2] \notin ComponentOf(graph, {result.arg[1]})
    /\ result.arg[3] > 0
    /\ result.ret = <<>>

\* p is a simple path of the graph from source to target.
IsSimplePath(g, p, source, target) ==
    /\ Len(p) >= 1
    /\ p[1] = source
    /\ p[Len(p)] = target
    /\ \A i \in DOMAIN p : p[i] \in NodeIds(g)
    /\ \A i, j \in DOMAIN p : i # j => p[i] # p[j]
    /\ \A i \in 1..(Len(p) - 1) : {p[i], p[i + 1]} \in DOMAIN g.edges

\* The number of hops of the shortest walk from the reached nodes to the
\* target, which some walk reaches.
RECURSIVE Hops(_, _, _)
Hops(g, reached, target) ==
    IF target \in reached THEN 0
    ELSE 1 + Hops(g, reached \cup UNION {LinkedTo(g, n) : n \in reached}, target)

\* The simple paths of the given number of hops from source to target
PathsOfHops(g, source, target, hops) ==
    {p \in [1..(hops + 1) -> NodeIds(g)] : IsSimplePath(g, p, source, target)}

----------------------------------------------------------------------------
(* Properties of the analytics *)

\* C23: GraphBuilder.analyze_connectivity and
\* StatisticsGenerator.generate_statistics return a report on every graph, the
\* graph without nodes included, and never raise to the caller.
AnalyticsNeverRaise ==
    (Called("analyze_connectivity") \/ Called("generate_statistics")) =>
        ~result.raised

\* The sum of the counts of a Counter
RECURSIVE Total(_)
Total(counts) ==
    IF DOMAIN counts = {} THEN 0
    ELSE LET k == CHOOSE k \in DOMAIN counts : TRUE
         IN counts[k] + Total([j \in DOMAIN counts \ {k} |-> counts[j]])

\* C24: every per-country output of compare_countries counts the same nodes
\* for a country token, so the counts of asset_types[c] sum to
\* countries[c].total_assets.
OneMembershipPredicate ==
    (Called("compare_countries") /\ ~result.raised) =>
        \A c \in DOMAIN result.ret.countries :
            Total(result.ret.asset_types[c]) = result.ret.countries[c].total_assets

----------------------------------------------------------------------------
(* Properties of the edges build_graph leaves *)

\* The ids of the built records in the order their nodes were created
RECURSIVE CreationOrder(_, _)
CreationOrder(entities, seen) ==
    IF entities = <<>> THEN <<>>
    ELSE IF Head(entities)["id"] \in seen THEN CreationOrder(Tail(entities), seen)
    ELSE <<Head(entities)["id"]>>
            \o CreationOrder(Tail(entities), seen \cup {Head(entities)["id"]})

\* The references of the registered records as <<source, field, target>>, in
\* processing order, those that name another registered id.
ResolvedReferences ==
    LET registered == Registry
        order == CreationOrder(BuiltEntities, {})
        all == Flatten([i \in 1..Len(order) |->
                   [j \in 1..Len(EntityReferences(registered[order[i]])) |->
                       <<order[i], EntityReferences(registered[order[i]])[j][1],
                         EntityReferences(registered[order[i]])[j][2]>>]])
    IN  SelectSeq(all, LAMBDA r : r[3] \in DOMAIN registered /\ r[3] # r[1])

\* C25: after build_graph the edges are the distinct unordered pairs of
\* different nodes linked by at least one resolved reference, one edge a pair,
\* and the relationship of each edge is the field of the last reference
\* between its ends in processing order.
LastRelationshipWins ==
    lastKey >= 0 =>
        LET refs == ResolvedReferences
        IN  /\ DOMAIN graph.edges = {{refs[i][1], refs[i][3]} : i \in 1..Len(refs)}
            /\ \A i \in 1..Len(refs) :
                   (\A j \in (i + 1)..Len(refs) :
                        {refs[j][1], refs[j][3]} # {refs[i][1], refs[i][3]})
                   => graph.edges[{refs[i][1], refs[i][3]}]["relationship"]
                          = Lit(refs[i][2])

\* Two records refer to each other by different fields: the edge between them
\* carries the field of the record processed later.
LastRelationshipWitness ==
    /\ lastKey >= 0
    /\ LET refs == ResolvedReferences
       IN  \E i, j \in 1..Len(refs) :
            /\ i < j
            /\ refs[i][1] = refs[j][3]
            /\ refs[i][3] = refs[j][1]
            /\ refs[i][2] # refs[j][2]
            /\ \A k \in (j + 1)..Len(refs) :
                  {refs[k][1], refs[k][3]} # {refs[j][1], refs[j][3]}
            /\ graph.edges[{refs[j][1], refs[j][3]}]["relationship"] = Lit(refs[j][2])

\* The entity field of each collection that is flattened, with the node
\* attribute it is flattened to.
TypeSpecific ==
    [vehicles |-> <<"vehicleType", "vehicle_type">>,
     militaryOrganizations |-> <<"organizationType", "organization_type">>,
     areas |-> <<"areaType", "area_type">>,
     people |-> <<"personTypes", "person_types">>]

\* C26: on every built graph, a node made from a vehicles record with a
\* vehicleType field has the attribute vehicle_type, one from a
\* militaryOrganizations record with organizationType has organization_type,
\* one from an areas record with areaType has area_type and one from a people
\* record with personTypes has person_types, each with the field's value.
TypeSpecificAttributesFlattened ==
    lastKey >= 0 =>
        LET registered == Registry
        IN  \A x \in DOMAIN registered : \A t \in DOMAIN TypeSpecific :
                (/\ graph.nodes[x]["type"] = Lit(t)
                 /\ TypeSpecific[t][1] \in DOMAIN registered[x])
                => /\ TypeSpecific[t][2] \in DOMAIN graph.nodes[x]
                   /\ graph.nodes[x][TypeSpecific[t][2]] = registered[x][TypeSpecific[t][1]]

----------------------------------------------------------------------------
(* Properties of the loader and the analyzer *)

\* C30: _has_file_changed(f) returns True iff f was not checked since the
\* loader was made or its cache cleared, or f holds something else than at
\* its previous check.
ChangeDetectionTracksContent ==
    Called("_has_file_changed") =>
        (result.ret <=>
            \/ result.arg[1] \notin DOMAIN checked.prior
            \/ checked.last[result.arg[1]] # checked.prior[result.arg[1]])

\* C27: when compare_countries or generate_comprehensive_report returns, the
\* graph it analysed is the one built from the loaded databases that the call
\* names.
AnalysedGraphIsCurrent ==
    (Called("compare_countries") \/ Called("generate_comprehensive_report")) =>
        analyzer.combined_graph
            = CombinedGraphOf(analyzer.databases, NamesOf(analyzer, result.arg[1]))

----------------------------------------------------------------------------
(* Properties of repeated filtering *)

\* The filters that read the edges of the graph they are given.
StructuralFilters == {"degree_min", "degree_max", "has_connection", "relationship"}

\* The filter map has no structural filter.
AttributeFiltersOnly(filters) ==
    \A i \in 1..Len(filters) : filters[i][1] \notin StructuralFilters

\* The nodes a call of apply_filters left, or the raise.
NodesOf(r) == IF r.raised THEN Raised ELSE Matched(NodeIds(r.ret))

\* The nodes left when the entries of the filter map from the i-th on are
\* applied one call of apply_filters after the other, each to the graph the
\* call before returned.
RECURSIVE NodesOneByOne(_, _, _)
NodesOneByOne(r, filters, i) ==
    IF r.raised \/ i > Len(filters) THEN NodesOf(r)
    ELSE NodesOneByOne(ApplyFilters(r.ret, <<filters[i]>>, r.ret.oid), filters, i + 1)

\* C28 as stated: a second apply_filters with the same filter map leaves the
\* node set of the first, and the entries applied one call after the other
\* leave the node set of the one call, whatever the filters.
ApplyFiltersIdempotent ==
    (Called("apply_filters") /\ ~result.raised) =>
        /\ NodesOf(ApplyFilters(result.ret, result.arg, result.ret.oid)) = NodesOf(result)
        /\ NodesOneByOne(Returns(graph), result.arg, 1) = NodesOf(result)

\* C28: for a filter map without structural filters, a second apply_filters
\* with the same map returns the node set of the first and raises nothing,
\* and applying the entries one call after the other gives the same node set
\* as the one call.
AttributeFiltersIdempotent ==
    (Called("apply_filters") /\ ~result.raised /\ AttributeFiltersOnly(result.arg)) =>
        /\ NodesOf(ApplyFilters(result.ret, result.arg, result.ret.oid)) = NodesOf(result)
        /\ NodesOneByOne(Returns(graph), result.arg, 1) = NodesOf(result)

\* A call with two attribute filters, one of which alone leaves more nodes
\* than the two together, some node being left and some dropped.
AttributeFiltersWitness ==
    /\ Called("apply_filters")
    /\ ~result.raised
    /\ Len(result.arg) = 2
    /\ AttributeFiltersOnly(result.arg)
    /\ \A i \in 1..2 : result.arg[i][1] \in AvailableFilters
    /\ NodeIds(result.ret) # {}
    /\ NodeIds(result.ret) # NodeIds(graph)
    /\ \E i \in 1..2 :
        NodeIds(ApplyFilters(graph, <<result.arg[i]>>, 1).ret) # NodeIds(result.ret)

----------------------------------------------------------------------------
(* Properties of requests for several equipment categories *)

\* The probe asked for a list of two equipment categories.
ProbedCategoryPair ==
    /\ Probed("equipment_category")
    /\ IsList(result.arg[1][2])
    /\ Len(result.arg[1][2].v) = 2

\* The nodes the equipment_category filter returns on the graph under
\* analysis for the i-th category of the probe alone, or its raise.
CategoryAlone(i) ==
    NodesOf(ApplyFilters(graph, <<<<"equipment_category", result.arg[1][2].v[i]>>>>, 1))

=============================================================================
